---- MODULE Spec2Model ----
(***************************************************************************)
(* Model of provisioning-tool/automagic.py: the provisioning runs          *)
(* (provision, config-test, provision-list in the native and the DD-WRT    *)
(* path), the device queue they walk, and the loading of the registry.     *)
(*                                                                         *)
(* Conventions                                                             *)
(*  - A record of the device queue keeps the keys the provisioning code    *)
(*    reads or writes.  A timestamp of 0 and a string "" mean "key         *)
(*    absent".  Every imported record has ConfigInput and ConfigStatus     *)
(*    (append_list), so these two keys are not modelled as optional.       *)
(*  - time.time() is Now; what the runs of the model write is told from    *)
(*    what was there before by the earlier time 1 of the initial records.  *)
(*  - events is the history of the current run (what was scanned, chosen,  *)
(*    pushed, reconnected); it is not program state.                       *)
(***************************************************************************)
EXTENDS Integers, Sequences, FiniteSets, TLC

\* ---------------------------------------------------------------------
\* Bounds of the model
\* ---------------------------------------------------------------------
MaxQueue == 2

MaxEmptyScans == 1

MaxAck == 4

\* ---------------------------------------------------------------------
\* Program constants
\* ---------------------------------------------------------------------
PushPasses == 5

NativeTries == 3

MaxAttempts == 10

\* ---------------------------------------------------------------------
\* The world: factory access points, networks, groups
\* ---------------------------------------------------------------------
None == ""

HomeSSID == "home"

FactorySSIDs == {"shelly1-a", "shellyPlus-b"}

PlusSSIDs == {"shellyPlus-b"}

MacOf(s) == IF s = "shelly1-a" THEN "mac-a" ELSE "mac-b"

ListOps == {"provision-list"}

NativeOnlyOps == {"provision", "config-test"}

OtherRegistryOps == {"probe-list", "query", "apply", "schema", "replace"}

RegistryOps == {"provision-list", "probe-list", "query", "apply", "schema", "provision", "replace"}

QueueOps == {"import", "provision-list", "list", "probe-list"}

\* ---------------------------------------------------------------------
\* Queue records
\* ---------------------------------------------------------------------
Pending(g, s) ==
    [SSID |-> s, Group |-> g, InProgressTime |-> 0, CompletedTime |-> 0,
     factory_ssid |-> None, ConfirmedTime |-> 0, Origin |-> None, ID |-> None]

CompletedRec ==
    [SSID |-> HomeSSID, Group |-> "g1", InProgressTime |-> 1, CompletedTime |-> 1,
     factory_ssid |-> "shelly1-a", ConfirmedTime |-> 1, Origin |-> "provision-list",
     ID |-> "mac-a"]

InitRecs == {Pending("g1", HomeSSID), Pending("g2", "other"), CompletedRec}

RECURSIVE SeqsUpTo(_, _)
SeqsUpTo(S, n) ==
    IF n = 0 THEN {<<>>}
    ELSE LET shorter == SeqsUpTo(S, n - 1)
         IN  shorter \cup {Append(q, x) : q \in {p \in shorter : Len(p) = n - 1}, x \in S}

IsCompleted(r) == r.CompletedTime # 0

\* ---------------------------------------------------------------------
\* Files
\* ---------------------------------------------------------------------
EmptyDb == [m \in {} |-> CompletedRec]

JsonFile(ex, wf, ty, fmt, c) ==
    [exists |-> ex, wellformed |-> wf, type |-> ty, format |-> fmt, content |-> c]

QueueFileOf(q) == JsonFile(TRUE, TRUE, "list", "missing", q)

NullFile == JsonFile(TRUE, TRUE, "null", "missing", <<>>)

DbFileOf(db) == JsonFile(TRUE, TRUE, "dict", "automagic", db)

\* the registry file before the first run: absent, or present but not a
\* registry (no Format key, another Format, a JSON list, not JSON at all);
\* a registry written by the program is what the first run leaves behind
InitDbFiles ==
    { JsonFile(FALSE, TRUE, "dict", "missing", EmptyDb),
      JsonFile(TRUE, TRUE, "dict", "missing", EmptyDb),
      JsonFile(TRUE, TRUE, "dict", "other", EmptyDb),
      JsonFile(TRUE, TRUE, "list", "missing", EmptyDb),
      JsonFile(TRUE, FALSE, "dict", "missing", EmptyDb) }

\* read_json_file without the test of the Format marker
ValidJson_NoFormat(f, emptyType) == f.type = emptyType

\* read_json_file, validation part: is the parsed file one this program wrote
ValidJson(f, emptyType) ==
    IF f.type # emptyType THEN FALSE
    ELSE IF f.type = "dict" THEN f.format = "automagic"
    ELSE \* a list: its first record must carry ConfigInput with SSID or
         \* ProbeIP, which every record written by append_list does
         TRUE

\* read_json_file: "ok" (parsed value returned), "empty" (IOError: default
\* returned), "exit" (sys.exit) or "raise" (json.load raises ValueError)
read_json_file(f, emptyType, validate) ==
    IF ~f.exists THEN "empty"
    ELSE IF ~f.wellformed THEN "raise"
    ELSE IF validate /\ ~ValidJson(f, emptyType) THEN "exit"
    ELSE "ok"

\* the file is a JSON object carrying the marker Format = 'automagic'
RegistryFileOk(f) == f.wellformed /\ f.type = "dict" /\ f.format = "automagic"

\* ---------------------------------------------------------------------
\* State
\* ---------------------------------------------------------------------
VARIABLES
    args,           \* parsed command line: operation, ddwrt_name (count), group, wait_time
    queueFile,      \* the file args.device_queue
    dbFile,         \* the file args.device_db
    device_queue,   \* global device_queue (list of records)
    dqNone,         \* TRUE iff the global device_queue is None (never loaded)
    device_db,      \* global device_db: device ID -> record
    dev_gen,        \* global dev_gen
    pc,             \* position of the single thread of control
    idx,            \* read_device_queue: next list position the generator looks at
    rec,            \* list position of the record yielded by the generator (0: none)
    freeRec,        \* the record yielded for provision / config-test
    prior_ssids,    \* provision_native: SSIDs already processed in this run
    found,          \* the factory SSID being provisioned (found / device_ssids[0])
    attempts,       \* provision_ddwrt: hand-off attempts for the current device
                    \* (0 outside the hand-off loop, where it is not read)
    stat,           \* result of provision_device
    station,        \* network the operator's station is joined to
    events,         \* history of the current run
    queueAtStart,   \* history: the queue as loaded at the start of the run
    \* flash_device
    flash_pc,       \* position in flash_device: "idle", "check", "trigger", "poll", "done"
    result,         \* the /ota answer before the update (None: no answer)
    new_version,    \* the target build (None: not known)
    ota_timeout,    \* time allowed for the update, in ticks
    dry_run,        \* args.dry_run
    clock,          \* time.time() - start_time, in ticks
    seen_updating,  \* flash_device: seen_updating
    passes,         \* flash_device: passes
    new_result,     \* the /ota answer of the last poll
    flash_ret,      \* the value flash_device returned (read when flash_pc = "done")
    flash_msg,      \* what flash_device reported last
    triggered,      \* history: the OTA request was sent to the device
    poll_trace,     \* history: the shape of the answers polled so far
    \* the DD-WRT routers
    router_db,      \* router_db: name -> what ddwrt-learn stored (identity, snapshots)
    ddwrt_name,     \* args.ddwrt_name: the routers named with -N
    routers,        \* the devices at the stored addresses: identity and wl_mode
    nodes,          \* ddwrt_choose_roles: nodes, the connections made (from 0)
    ap_node,        \* index of the node in the AP role
    sta_node,       \* index of the node in the STA role
    router_pc,      \* position: "idle", "connect", "choose", "run", "exit"
    written,        \* history: the routers that were sent an nvram write or a role switch
    last_call,      \* history: the last call of ddwrt_program_mode
    run_pc,         \* provision_ddwrt, position in the hand-off of a device:
                    \* "ap_before", "sta", "push", "ap_after", "verify"
    run_attempts,   \* provision_ddwrt: attempts (0 before the first hand-off)
    handed,         \* history: the devices handed off and confirmed
    slow,           \* history: per router, the full applies it was sent
    device_slow,    \* history: the full applies sent for the current device
    \* the polling loops of probe_list and of query (apply)
    poll_pc,        \* position: "idle", "probe", "apply", "done"
    todo,           \* todo: the selected devices not reached yet, in list order
    done,           \* done: the devices reached
    poll_passes,    \* query: passes, kept up to the value the loop compares it with
    continuous_count, \* query: selected devices with Continuous access still to do
    total_count,    \* query: selected devices still to do
    access,         \* per device: Access of its record, "Continuous" or "Periodic"
    unresponsive,   \* the devices that never answer
    wake,           \* per device: passes to go before it answers
    poll_tick,      \* history: parity of the number of passes made
    apply_reads,    \* apply reads the settings back (--settings or --url, no --dry-run)
    configured_settings, \* query: the device whose settings apply returned last
    loop_data,      \* query: the loop variable data, the device it stands for
    settings_of,    \* per device: the device whose settings the registry holds for it
    \* flatten and the column resolution of query
    flat_pc,        \* position: "idle", "start", "flattened", "resolved"
    tree,           \* d: the nested record given to flatten
    flat,           \* the first element of what flatten returned: path -> text
    query_column,   \* a column name of args.query_columns
    column_map,     \* query: the paths the column was resolved to
    \* the selection of records by match_rec
    sel_pc,         \* position: "idle", "start", "query", "probe"
    sel_entry,      \* a record of the queue or of the registry
    sel_args,       \* args: query_conditions, match_tag, group, access
    selected,       \* the record was appended to todo
    tag_edit,       \* args.set_tag and args.delete_tag of the run
    need_write,     \* query: need_write
    sel_runs,       \* the runs of query that came before this one
    set_tags,       \* the tags of the --set-tag runs that selected the record
    tag_deleted,    \* some run that selected the record had --delete-tag
    \* apply on one device
    apply_pc,       \* position: "idle", "start", "applied"
    apply_args,     \* args: ota, apply_urls, settings, restore_device, dry_run
    stored_settings, \* device_db[ data[ 'ID' ] ][ 'settings' ]
    ota_pre,        \* history: what flash_device found before the update
    printed,        \* history: the requests printed
    sent,           \* history: the requests sent to the device
    run_opts,       \* args.delete_device, args.set_tag, args.delete_tag of an apply run
    db_rec,         \* device_db[ data[ 'ID' ] ] during an apply run
    db_stored,      \* the same record in the registry file
    db_writes,      \* history: the calls of write_json_file of the run
    apply_ret,      \* ( configured_settings, need_write ) of the run so far
    \* provision_device
    push_pc,        \* position: "idle", "pause", "attempt", "pass_end", "done"
    push_in,        \* the call and the device: tries, verbose, dev_gen, the answers
    push_i,         \* provision_device: i, the pass (from 0)
    push_j,         \* provision_device: j, the attempt of the pass (from 0)
    got_one,        \* provision_device: got_one
    push_ret,       \* the value provision_device returned (read when push_pc = "done")
    pushes,         \* history: the requests sent
    pauses,         \* history: the pauses made
    good_pass,      \* history: the pass of the first answer without 'error' (0: none)
    \* ddwrt_do_cmd on one telnet connection
    tn_pc,          \* position: "idle", "eager", "write", "echo", "response", "returned"
    tn_cmd,         \* the number of the command ddwrt_do_cmd was called with
    tn_half,        \* 1: the command itself, 2: cat /tmp/cmd.err.out
    tn_line,        \* what the router wrote and the connection has not received yet
    tn_buf,         \* what the connection received and no read has taken yet
    tn_result,      \* ddwrt_do_cmd: response, as the pieces of router output in it
    tn_err          \* ddwrt_do_cmd: err, as the pieces of router output in it

\* the state of main and of the provisioning runs
provVars == <<args, queueFile, dbFile, device_queue, dqNone, device_db, dev_gen, pc, idx,
              rec, freeRec, prior_ssids, found, attempts, stat, station, events,
              queueAtStart>>

\* the state of flash_device
flashVars == <<flash_pc, result, new_version, ota_timeout, dry_run, clock, seen_updating,
               passes, new_result, flash_ret, flash_msg, triggered, poll_trace>>

\* the state of the DD-WRT connections
routerVars == <<router_db, ddwrt_name, routers, nodes, ap_node, sta_node, router_pc,
                written, last_call, run_pc, run_attempts, handed, slow, device_slow>>

\* the state of the polling loops
pollVars == <<poll_pc, todo, done, poll_passes, continuous_count, total_count, access,
              unresponsive, wake, poll_tick, apply_reads, configured_settings, loop_data,
              settings_of>>

\* the state of flatten and of the column resolution
flattenVars == <<flat_pc, tree, flat, query_column, column_map>>

\* the state of the selection
selectVars == <<sel_pc, sel_entry, sel_args, selected, tag_edit, need_write,
               sel_runs, set_tags, tag_deleted>>

\* the state of apply
applyVars == <<apply_pc, apply_args, stored_settings, ota_pre, printed, sent,
              run_opts, db_rec, db_stored, db_writes, apply_ret>>

\* the state of the registry operations query, schema and apply
queryVars == <<flattenVars, selectVars, applyVars>>

\* the state of provision_device
pushVars == <<push_pc, push_in, push_i, push_j, got_one, push_ret, pushes, pauses,
              good_pass>>

\* the state of a telnet connection to a router
telnetVars == <<tn_pc, tn_cmd, tn_half, tn_line, tn_buf, tn_result, tn_err>>

\* the state of the exchanges with one device or router
linkVars == <<pushVars, telnetVars>>

vars == <<provVars, flashVars, routerVars, pollVars, queryVars, linkVars>>

\* what main and the provisioning functions leave alone
ProvisionFrame == UNCHANGED <<flashVars, routerVars, pollVars, queryVars, linkVars>>

\* a dict without keys
EmptyMap == [p \in {} |-> ""]

\* provision_device is not running
PushIdle ==
    /\ push_pc = "idle"
    /\ push_in = [tries |-> 0, verbose |-> 0, dev_gen |-> 1, ack |-> 0, bad |-> "none",
                  after |-> "none"]
    /\ push_i = 0
    /\ push_j = 0
    /\ got_one = FALSE
    /\ push_ret = FALSE
    /\ pushes = 0
    /\ pauses = 0
    /\ good_pass = 0

\* no command is being sent to a router
TelnetIdle ==
    /\ tn_pc = "idle"
    /\ tn_cmd = 0
    /\ tn_half = 1
    /\ tn_line = <<>>
    /\ tn_buf = <<>>
    /\ tn_result = <<>>
    /\ tn_err = <<>>

\* no exchange is going on
LinkIdle == PushIdle /\ TelnetIdle

\* flatten is not running
FlattenIdle ==
    /\ flat_pc = "idle"
    /\ tree = [t |-> "s", s |-> 0, items |-> <<>>, elems |-> <<>>]
    /\ flat = EmptyMap
    /\ query_column = <<>>
    /\ column_map = {}

\* a dict as match_rec reads it: the keys with a text value, and Tags, a
\* comma-separated text held as the sequence of its parts
Rec(fields, hasTags, tags) == [fields |-> fields, hasTags |-> hasTags, Tags |-> tags]

NoRec == Rec(EmptyMap, FALSE, <<>>)

\* nothing is being selected
SelectIdle ==
    /\ sel_pc = "idle"
    /\ sel_entry = [ConfigInput |-> NoRec, top |-> NoRec]
    /\ sel_args = [query_conditions |-> {}, match_tag |-> None, group |-> None,
                   access |-> "ALL"]
    /\ selected = FALSE
    /\ tag_edit = [set_tag |-> None, delete_tag |-> None]
    /\ need_write = FALSE
    /\ sel_runs = 0
    /\ set_tags = {}
    /\ tag_deleted = FALSE

\* an apply run without --delete-device, --set-tag and --delete-tag
NoOpts == [delete_device |-> FALSE, set_tag |-> None, delete_tag |-> None]

\* a registry record with its settings as the last run left them
Stored(hasTags, tags) ==
    [present |-> TRUE, hasTags |-> hasTags, Tags |-> tags, settings |-> "old"]

\* nothing read from a device, nothing to write
NoReturn == [configured_settings |-> FALSE, need_write |-> FALSE]

\* apply is not running
ApplyIdle ==
    /\ apply_pc = "idle"
    /\ apply_args = [ota |-> FALSE, apply_urls |-> FALSE, settings |-> FALSE,
                     restore_device |-> FALSE, dry_run |-> FALSE]
    /\ stored_settings = [t |-> "s", s |-> 0, items |-> <<>>, elems |-> <<>>]
    /\ ota_pre = "none"
    /\ printed = {}
    /\ sent = {}
    /\ run_opts = NoOpts
    /\ db_rec = Stored(FALSE, <<>>)
    /\ db_stored = Stored(FALSE, <<>>)
    /\ db_writes = 0
    /\ apply_ret = NoReturn

\* query, schema and apply are not running
QueryIdle == FlattenIdle /\ SelectIdle /\ ApplyIdle

\* no polling loop is running
PollIdle ==
    /\ poll_pc = "idle"
    /\ todo = <<>>
    /\ done = {}
    /\ poll_passes = 0
    /\ continuous_count = 0
    /\ total_count = 0
    /\ access = <<>>
    /\ unresponsive = {}
    /\ wake = <<>>
    /\ poll_tick = 0
    /\ apply_reads = FALSE
    /\ configured_settings = None
    /\ loop_data = None
    /\ settings_of = <<>>

\* no call of ddwrt_program_mode yet
NoCall == [name |-> None, mode |-> None, before |-> None, cmds |-> {}, branch |-> "none"]

\* no router is named
RouterIdle ==
    /\ router_db = <<>>
    /\ ddwrt_name = <<>>
    /\ routers = <<>>
    /\ nodes = <<>>
    /\ ap_node = 0
    /\ sta_node = 0
    /\ router_pc = "idle"
    /\ written = {}
    /\ last_call = NoCall
    /\ run_pc = "sta"
    /\ run_attempts = 0
    /\ handed = 0
    /\ slow = <<>>
    /\ device_slow = 0

\* flash_device is not running
FlashIdle ==
    /\ flash_pc = "idle"
    /\ result = [status |-> "none", old_version |-> None]
    /\ new_version = None
    /\ ota_timeout = 0
    /\ dry_run = FALSE
    /\ clock = 0
    /\ seen_updating = FALSE
    /\ passes = 0
    /\ new_result = [status |-> "none", old_version |-> None]
    /\ flash_ret = FALSE
    /\ flash_msg = None
    /\ triggered = FALSE
    /\ poll_trace = "empty"

\* time.time(): the time of the runs the model makes; the records of Init
\* carry the earlier time 1
Now == 2

ProvisionOps == {"provision", "config-test", "provision-list"}

Ops == ProvisionOps \cup OtherRegistryOps

IsList == args.operation \in ListOps

\* an entry of the history: what happened, the factory SSID and the list
\* position it concerns, and whether it succeeded
Ev(e, s, k, ok) == [e |-> e, ssid |-> s, entry |-> k, ok |-> ok]

EmptyScans == Cardinality({i \in DOMAIN events : events[i].e = "scan_none"})

CurRec == IF IsList THEN device_queue[rec] ELSE freeRec

\* assignment through the reference rec, which aliases a queue element in
\* provision-list and is a free-standing dict otherwise
SetRec(r) ==
    IF IsList
    THEN device_queue' = [device_queue EXCEPT ![rec] = r] /\ UNCHANGED freeRec
    ELSE freeRec' = r /\ UNCHANGED device_queue

\* write_json_file( args.device_queue, device_queue ) with the new queue q
WriteQueueFile(q) == queueFile' = IF dqNone THEN NullFile ELSE QueueFileOf(q)

ArgSets ==
    { [operation |-> o, ddwrt_name |-> d, group |-> g, wait_time |-> w] :
        o \in Ops, d \in 0..2, g \in {None, "g1"}, w \in {0, 1} }

InitArgs ==
    { a \in ArgSets :
        /\ a.operation # "provision-list" => (a.ddwrt_name = 0 /\ a.group = None)
        /\ a.operation \notin ProvisionOps => a.wait_time = 0 }

Init ==
    /\ args \in InitArgs
    /\ queueFile \in {QueueFileOf(q) : q \in
                        IF args.operation = "provision-list"
                        THEN SeqsUpTo(InitRecs, MaxQueue) ELSE {<<>>}}
    /\ dbFile \in InitDbFiles
    /\ device_queue = <<>>
    /\ dqNone = TRUE
    /\ device_db = EmptyDb
    /\ dev_gen = 1
    /\ pc = "main"
    /\ idx = 1
    /\ rec = 0
    /\ freeRec = Pending(None, None)
    /\ prior_ssids = {}
    /\ found = None
    /\ attempts = 0
    /\ stat = FALSE
    /\ station = HomeSSID
    /\ events = <<>>
    /\ queueAtStart = <<>>
    /\ FlashIdle
    /\ RouterIdle
    /\ PollIdle
    /\ QueryIdle
    /\ LinkIdle

\* ---------------------------------------------------------------------
\* main: load the files, then dispatch on the operation
\* ---------------------------------------------------------------------
ConfigTestWait == 15

Main ==
    /\ ProvisionFrame
    /\ pc = "main"
    /\ LET qres == IF args.operation \in QueueOps
                   THEN read_json_file(queueFile, "list", TRUE) ELSE "skip"
           dres == IF args.operation \in RegistryOps
                   THEN read_json_file(dbFile, "dict", TRUE) ELSE "skip"
           q    == IF qres = "ok" THEN queueFile.content ELSE <<>>
       IN  IF qres \in {"exit", "raise"} \/ dres \in {"exit", "raise"}
           THEN /\ pc' = "exit"
                /\ UNCHANGED <<args, device_queue, dqNone, device_db, events, queueAtStart>>
           ELSE /\ device_queue' = q
                /\ dqNone' = (qres = "skip")
                /\ queueAtStart' = q
                /\ device_db' = IF dres = "ok" THEN dbFile.content ELSE EmptyDb
                /\ args' = IF args.operation = "config-test" /\ args.wait_time = 0
                           THEN [args EXCEPT !.wait_time = ConfigTestWait] ELSE args
                /\ events' = Append(events, Ev("start", None, 0, TRUE))
                /\ pc' = IF args.operation \in OtherRegistryOps THEN "other_op"
                         ELSE IF args.operation = "provision-list" /\ args.ddwrt_name > 0
                              THEN "ddwrt_start"
                         ELSE "native_start"
    /\ UNCHANGED <<queueFile, dbFile, dev_gen, idx, rec, freeRec, prior_ssids, found,
                   attempts, stat, station>>

\* probe-list, query, apply, schema, replace: the operation runs on the loaded
\* registry and may write it back
OtherOperation ==
    /\ ProvisionFrame
    /\ pc = "other_op"
    /\ \E write \in BOOLEAN :
         dbFile' = IF write THEN DbFileOf(device_db) ELSE dbFile
    /\ pc' = "exit"
    /\ UNCHANGED <<args, queueFile, device_queue, dqNone, device_db, dev_gen, idx, rec,
                   freeRec, prior_ssids, found, attempts, stat, station, events,
                   queueAtStart>>

\* ---------------------------------------------------------------------
\* Helpers of the provisioning loops
\* ---------------------------------------------------------------------
\* check_for_device_queue( dq, group, ssid = ssid ): is some entry ready
QueueReady(q, group, ssid) ==
    \E k \in 1..Len(q) :
        /\ ~IsCompleted(q[k])
        /\ (group = None \/ (q[k].Group # None /\ q[k].Group = group))
        /\ (ssid = None \/ q[k].SSID = ssid)

\* read_device_queue without the test of CompletedTime
SkipsEntry_IgnoresCompleted(r, group, ssid) ==
    \/ (group # None /\ (r.Group = None \/ r.Group # group))
    \/ (ssid # None /\ ssid # r.SSID)

\* read_device_queue: the condition under which an entry is skipped
SkipsEntry(r, group, ssid) ==
    \/ IsCompleted(r)
    \/ (group # None /\ (r.Group = None \/ r.Group # group))
    \/ (ssid # None /\ ssid # r.SSID)

\* read_device_queue: position of the next entry the generator yields at or
\* after position from, 0 when the list is exhausted
NextIdx(q, from, group, ssid) ==
    LET cand == {k \in from..Len(q) : ~SkipsEntry(q[k], group, ssid)}
    IN  IF cand = {} THEN 0 ELSE CHOOSE k \in cand : \A j \in cand : k <= j

\* wifi_connect( ..., prefix=True, ignore_ssids ): the networks it may join
\* given the access points in range; None when there is no candidate
wifi_connect(visible, ignore_ssids) ==
    IF visible \ ignore_ssids = {} THEN {None} ELSE visible \ ignore_ssids

\* provision_device: pass number i of 5; ack is the number of the first push
\* that sets got_one (0: none does).  Returns the result and the number of
\* pushes made.
RECURSIVE provision_pass(_, _, _)
provision_pass(i, tries, ack) ==
    IF i > PushPasses THEN [ok |-> FALSE, pushes |-> PushPasses * tries]
    ELSE IF ack # 0 /\ ack <= i * tries THEN [ok |-> TRUE, pushes |-> i * tries]
    ELSE provision_pass(i + 1, tries, ack)

provision_device(tries, ack) == provision_pass(1, tries, ack)

\* finish_up_device: the record after the confirmation
finish_up_rec(r, op, mac) ==
    [r EXCEPT !.ConfirmedTime = Now, !.Origin = op, !.ID = mac]

PutDb(db, mac, r) == [m \in DOMAIN db \cup {mac} |-> IF m = mac THEN r ELSE db[m]]

\* ---------------------------------------------------------------------
\* provision_native
\* ---------------------------------------------------------------------
NativePcs == {"native_start", "native_next", "native_scan", "native_status",
              "native_status_failed", "native_push", "native_reconnect", "native_verify"}

\* entry of provision_native up to the for loop: the queue must hold an entry
\* ready for the current SSID, and the operator confirms the SSID
NativeStart ==
    /\ ProvisionFrame
    /\ pc = "native_start"
    /\ IF IsList /\ ~QueueReady(device_queue, args.group, HomeSSID)
       THEN pc' = "exit"
       ELSE \E answer \in BOOLEAN : pc' = IF answer THEN "native_next" ELSE "exit"
    /\ prior_ssids' = {}
    /\ UNCHANGED <<args, queueFile, dbFile, device_queue, dqNone, device_db, dev_gen, idx,
                   rec, freeRec, found, attempts, stat, station, events, queueAtStart>>

\* for rec in read_device_queue( device_queue, args, ssid )
NativeNext ==
    /\ ProvisionFrame
    /\ pc = "native_next"
    /\ IF IsList
       THEN LET k == NextIdx(device_queue, idx, args.group, HomeSSID)
            IN  IF k = 0
                THEN /\ pc' = "exit"
                     /\ UNCHANGED <<device_queue, idx, rec, events, freeRec>>
                ELSE /\ device_queue' = [device_queue EXCEPT ![k].InProgressTime = Now]
                     /\ idx' = k + 1
                     /\ rec' = k
                     /\ events' = Append(events, Ev("yield", None, k, TRUE))
                     /\ pc' = "native_scan"
                     /\ UNCHANGED freeRec
       ELSE /\ freeRec' = [Pending(None, HomeSSID) EXCEPT !.InProgressTime = Now]
            /\ events' = Append(events, Ev("yield", None, 0, TRUE))
            /\ pc' = "native_scan"
            /\ UNCHANGED <<device_queue, idx, rec>>
    /\ UNCHANGED <<args, queueFile, dbFile, dqNone, device_db, dev_gen, prior_ssids,
                   found, attempts, stat, station, queueAtStart>>

\* found = wifi_connect( ... ignore_ssids=prior_ssids ) and the else branch
NativeScan ==
    /\ ProvisionFrame
    /\ pc = "native_scan"
    /\ \E f \in UNION {wifi_connect(visible, prior_ssids) : visible \in SUBSET FactorySSIDs} :
         IF f # None
         THEN /\ found' = f
              /\ dev_gen' = IF f \in PlusSSIDs THEN 2 ELSE 1
              /\ prior_ssids' = prior_ssids \cup {f}
              /\ station' = f
              /\ events' = Append(events, Ev("select", f, rec, TRUE))
              /\ pc' = "native_status"
         ELSE /\ EmptyScans < MaxEmptyScans
              /\ found' = None
              /\ events' = Append(events, Ev("scan_none", None, rec, TRUE))
              /\ pc' = IF args.wait_time = 0 THEN "exit" ELSE "native_next"
              /\ UNCHANGED <<dev_gen, prior_ssids, station>>
    /\ UNCHANGED <<args, queueFile, dbFile, device_queue, dqNone, device_db, idx, rec,
                   freeRec, attempts, stat, queueAtStart>>

\* get_status( factory_device_addr ) after attaching to the factory AP, and
\* write_json_file( args.device_queue, device_queue ): when the file cannot
\* be written, sys.exit( ) goes to main's 'except SystemExit: return'
NativeStatus ==
    /\ ProvisionFrame
    /\ pc = "native_status"
    /\ \E answered \in BOOLEAN :
         IF answered
         THEN /\ SetRec([CurRec EXCEPT !.factory_ssid = found])
              /\ \E writable \in BOOLEAN :
                   IF writable
                   THEN /\ WriteQueueFile(device_queue')
                        /\ pc' = "native_push"
                        /\ UNCHANGED events
                   ELSE /\ events' = Append(events, Ev("write_fail", found, rec, FALSE))
                        /\ pc' = "exit"
                        /\ UNCHANGED queueFile
         ELSE /\ events' = Append(events, Ev("status_fail", found, rec, FALSE))
              /\ pc' = "native_status_failed"
              /\ UNCHANGED <<device_queue, freeRec, queueFile>>
    /\ UNCHANGED <<args, dbFile, dqNone, device_db, dev_gen, idx, rec, prior_ssids, found,
                   attempts, stat, station, queueAtStart>>

\* the device did not answer: break without wifi_reconnect
NativeStatusFailed_NoReconnect ==
    /\ ProvisionFrame
    /\ pc = "native_status_failed"
    /\ pc' = "exit"
    /\ UNCHANGED <<args, queueFile, dbFile, device_queue, dqNone, device_db, dev_gen, idx,
                   rec, freeRec, prior_ssids, found, attempts, stat, station, events,
                   queueAtStart>>

\* the device did not answer: wifi_reconnect( credentials ), then break
NativeStatusFailed ==
    /\ ProvisionFrame
    /\ pc = "native_status_failed"
    /\ \E ok \in BOOLEAN :
         /\ station' = IF ok THEN HomeSSID ELSE station
         /\ events' = Append(events, Ev("reconnect", None, rec, ok))
    /\ pc' = "exit"
    /\ UNCHANGED <<args, queueFile, dbFile, device_queue, dqNone, device_db, dev_gen, idx,
                   rec, freeRec, prior_ssids, found, attempts, stat, queueAtStart>>

\* stat = provision_device( factory_device_addr, 3, ... )
NativePush ==
    /\ ProvisionFrame
    /\ pc = "native_push"
    /\ \E res \in {provision_device(NativeTries, ack) : ack \in 0..MaxAck} :
             /\ stat' = res.ok
             /\ events' = Append(events, Ev("push", found, rec, res.ok))
    /\ pc' = "native_reconnect"
    /\ UNCHANGED <<args, queueFile, dbFile, device_queue, dqNone, device_db, dev_gen, idx,
                   rec, freeRec, prior_ssids, found, attempts, station, queueAtStart>>

\* the loop is left only when the reconnect failed
NativeStops_IgnoresStat(ok, st) == ~ok

\* provision_native after the push: break when the reconnect failed,
\* sys.exit(0) when provision_device returned False
NativeStops(ok, st) == ~ok \/ ~st

\* wifi_reconnect( credentials ); break if it fails; sys.exit(0) if the push
\* failed; otherwise CompletedTime is set and the queue written
NativeReconnect ==
    /\ ProvisionFrame
    /\ pc = "native_reconnect"
    /\ \E ok \in BOOLEAN :
         /\ station' = IF ok THEN HomeSSID ELSE station
         /\ events' = Append(events, Ev("reconnect", None, rec, ok))
         /\ IF NativeStops(ok, stat)
            THEN /\ pc' = "exit"
                 /\ UNCHANGED <<device_queue, freeRec, queueFile>>
            ELSE /\ SetRec([CurRec EXCEPT !.CompletedTime = Now])
                 /\ IF args.operation # "config-test"
                    THEN WriteQueueFile(device_queue')
                    ELSE UNCHANGED queueFile
                 /\ pc' = "native_verify"
    /\ UNCHANGED <<args, dbFile, dqNone, device_db, dev_gen, idx, rec, prior_ssids, found,
                   attempts, stat, queueAtStart>>

\* a failed verification goes on with the next record
NativeOnVerifyFail_Continue == "native_next"

\* provision_native: if stat == 'Fail': break
NativeOnVerifyFail == "exit"

\* stat = check_status( ip_address, found, ssid, rec, new_version, args )
NativeVerify ==
    /\ ProvisionFrame
    /\ pc = "native_verify"
    /\ \E answered \in BOOLEAN :
         IF ~answered
         THEN /\ events' = Append(events, Ev("verify_fail", found, rec, FALSE))
              /\ pc' = NativeOnVerifyFail
              /\ UNCHANGED <<device_queue, freeRec, device_db, dbFile>>
         ELSE /\ events' = Append(events, Ev("verify_ok", found, rec, TRUE))
              /\ IF args.operation = "config-test"
                 THEN /\ \E quit \in BOOLEAN :
                           pc' = IF quit THEN "main_except" ELSE "native_next"
                      /\ UNCHANGED <<device_queue, freeRec, device_db, dbFile>>
                 ELSE LET r == finish_up_rec(CurRec, args.operation, MacOf(found))
                      IN  /\ SetRec(r)
                          /\ device_db' = PutDb(device_db, MacOf(found), r)
                          /\ dbFile' = DbFileOf(device_db')
                          /\ pc' = "native_next"
    /\ UNCHANGED <<args, queueFile, dqNone, dev_gen, idx, rec, prior_ssids, found,
                   attempts, stat, station, queueAtStart>>

\* control-C while provision_native runs: KeyboardInterrupt reaches main
NativeInterrupt ==
    /\ ProvisionFrame
    /\ pc \in NativePcs
    /\ events' = Append(events, Ev("interrupt", None, rec, TRUE))
    /\ pc' = "main_except"
    /\ UNCHANGED <<args, queueFile, dbFile, device_queue, dqNone, device_db, dev_gen, idx,
                   rec, freeRec, prior_ssids, found, attempts, stat, station,
                   queueAtStart>>

\* main, bare except around provision_native, re-raising at once
MainExcept_NoReconnect ==
    /\ ProvisionFrame
    /\ pc = "main_except"
    /\ pc' = "exit"
    /\ UNCHANGED <<args, queueFile, dbFile, device_queue, dqNone, device_db, dev_gen, idx,
                   rec, freeRec, prior_ssids, found, attempts, stat, station, events,
                   queueAtStart>>

\* main, bare except around provision_native: wifi_reconnect, then re-raise
MainExcept ==
    /\ ProvisionFrame
    /\ pc = "main_except"
    /\ \E ok \in BOOLEAN :
         /\ station' = IF ok THEN HomeSSID ELSE station
         /\ events' = Append(events, Ev("reconnect", None, rec, ok))
    /\ pc' = "exit"
    /\ UNCHANGED <<args, queueFile, dbFile, device_queue, dqNone, device_db, dev_gen, idx,
                   rec, freeRec, prior_ssids, found, attempts, stat, queueAtStart>>

\* ---------------------------------------------------------------------
\* provision_ddwrt
\* ---------------------------------------------------------------------
DdwrtPcs == {"ddwrt_start", "ddwrt_next", "ddwrt_scan", "ddwrt_handoff", "ddwrt_push",
             "ddwrt_verify"}

DdwrtTriesSingle == 1

DdwrtTriesDual == 3

\* ap_node and sta_node are the same router
SingleRouter == args.ddwrt_name = 1

\* tries = 1 if ap_node and sta_node are the same router else 3
DdwrtTries == IF SingleRouter THEN DdwrtTriesSingle ELSE DdwrtTriesDual

\* ddwrt_discover( sta_node, prefix ): every SSID of the site survey that
\* starts with the prefix; the survey order decides which comes first
ddwrt_discover(visible) == visible

\* what device_ssids[0] may be when len( device_ssids ) > 0, None otherwise
DeviceSsids0(visible) ==
    IF ddwrt_discover(visible) = {} THEN {None} ELSE ddwrt_discover(visible)

\* check_for_device_queue( device_queue, args.group ) and ddwrt_choose_roles
DdwrtStart ==
    /\ ProvisionFrame
    /\ pc = "ddwrt_start"
    /\ pc' = IF QueueReady(device_queue, args.group, None) THEN "ddwrt_next" ELSE "exit"
    /\ UNCHANGED <<args, queueFile, dbFile, device_queue, dqNone, device_db, dev_gen, idx,
                   rec, freeRec, prior_ssids, found, attempts, stat, station, events,
                   queueAtStart>>

\* for rec in read_device_queue( device_queue, args, None )
DdwrtNext ==
    /\ ProvisionFrame
    /\ pc = "ddwrt_next"
    /\ LET k == NextIdx(device_queue, idx, args.group, None)
       IN  IF k = 0
           THEN /\ pc' = "exit"
                /\ UNCHANGED <<device_queue, idx, rec, events>>
           ELSE /\ device_queue' = [device_queue EXCEPT ![k].InProgressTime = Now]
                /\ idx' = k + 1
                /\ rec' = k
                /\ events' = Append(events, Ev("yield", None, k, TRUE))
                /\ pc' = "ddwrt_scan"
    /\ UNCHANGED <<args, queueFile, dbFile, dqNone, device_db, dev_gen, freeRec,
                   prior_ssids, found, attempts, stat, station, queueAtStart>>

\* the inner while True: device_ssids = ddwrt_discover( sta_node, args.prefix )
DdwrtScan ==
    /\ ProvisionFrame
    /\ pc = "ddwrt_scan"
    /\ \E first \in UNION {DeviceSsids0(visible) : visible \in SUBSET FactorySSIDs} :
             IF first # None
             THEN LET f == first
                  IN
                    /\ found' = f
                    /\ dev_gen' = IF f \in PlusSSIDs THEN 2 ELSE 1
                    /\ device_queue' = [device_queue EXCEPT ![rec].factory_ssid = f,
                                                            ![rec].InProgressTime = Now]
                    /\ WriteQueueFile(device_queue')
                    /\ attempts' = 0
                    /\ events' = Append(events, Ev("select", f, rec, TRUE))
                    /\ pc' = "ddwrt_handoff"
             ELSE /\ EmptyScans < MaxEmptyScans
                  /\ events' = Append(events, Ev("scan_none", None, rec, TRUE))
                  /\ pc' = "ddwrt_scan"
                  /\ UNCHANGED <<found, dev_gen, device_queue, queueFile, attempts>>
    /\ UNCHANGED <<args, dbFile, dqNone, device_db, idx, rec, freeRec, prior_ssids, stat,
                   station, queueAtStart>>

DdwrtOnRouterError_Continue == "ddwrt_next"

\* provision_ddwrt and main have no handler for the Exception that
\* ddwrt_get_single_line_result raises: the traceback ends the program
DdwrtOnRouterError == "exit"

\* one hand-off attempt up to the status query through the forwarded address:
\* program the routers (a failing router command raises), loop back, get_status
DdwrtHandoff ==
    /\ ProvisionFrame
    /\ pc = "ddwrt_handoff"
    /\ \E outcome \in {"router_error", "no_answer", "answer"} :
         /\ attempts' = IF outcome = "answer" THEN attempts + 1 ELSE 0
         /\ events' = IF outcome = "answer" THEN events
                      ELSE IF outcome = "no_answer"
                           THEN Append(events, Ev("status_fail", found, rec, FALSE))
                      ELSE Append(events, Ev("router_error", found, rec, FALSE))
         /\ pc' = IF outcome = "answer" THEN "ddwrt_push"
                  ELSE IF outcome = "router_error" THEN DdwrtOnRouterError
                  ELSE "exit"
    /\ UNCHANGED <<args, queueFile, dbFile, device_queue, dqNone, device_db, dev_gen, idx,
                   rec, freeRec, prior_ssids, found, stat, station, queueAtStart>>

\* stat = provision_device( forwarded_addr, tries, ... ); retry the hand-off
\* until attempts reaches 10, then sys.exit.  The history records the push
\* that ends the hand-off loop (accepted, or refused at the last attempt).
DdwrtPush ==
    /\ ProvisionFrame
    /\ pc = "ddwrt_push"
    /\ \E res \in {provision_device(DdwrtTries, ack) : ack \in 0..MaxAck} :
             /\ stat' = res.ok
             /\ events' = IF res.ok \/ attempts >= MaxAttempts
                          THEN Append(events, Ev("push", found, rec, res.ok))
                          ELSE events
             /\ pc' = IF res.ok THEN "ddwrt_verify"
                      ELSE IF attempts >= MaxAttempts THEN "exit"
                      ELSE "ddwrt_handoff"
             \* attempts is not read again once the hand-off loop is left
             /\ attempts' = IF res.ok \/ attempts >= MaxAttempts THEN 0 ELSE attempts
    /\ UNCHANGED <<args, queueFile, dbFile, device_queue, dqNone, device_db, dev_gen, idx,
                   rec, freeRec, prior_ssids, found, station, queueAtStart>>

\* new_status = check_status( ... ); sys.exit on 'Fail'; otherwise the entry
\* is confirmed (finish_up_device), marked complete and the queue written
DdwrtVerify ==
    /\ ProvisionFrame
    /\ pc = "ddwrt_verify"
    /\ \E answered \in BOOLEAN :
         IF ~answered
         THEN /\ events' = Append(events, Ev("verify_fail", found, rec, FALSE))
              /\ pc' = "exit"
              /\ UNCHANGED <<device_queue, queueFile, device_db, dbFile>>
         ELSE LET r == finish_up_rec(device_queue[rec], args.operation, MacOf(found))
              IN  /\ events' = Append(events, Ev("verify_ok", found, rec, TRUE))
                  /\ device_db' = PutDb(device_db, MacOf(found), r)
                  /\ dbFile' = DbFileOf(device_db')
                  /\ device_queue' = [device_queue EXCEPT
                                         ![rec] = [r EXCEPT !.CompletedTime = Now]]
                  /\ WriteQueueFile(device_queue')
                  /\ pc' = "ddwrt_next"
    /\ UNCHANGED <<args, dqNone, dev_gen, idx, rec, freeRec, prior_ssids, found, attempts,
                   stat, station, queueAtStart>>

\* control-C while provision_ddwrt runs: KeyboardInterrupt ends the program
DdwrtInterrupt ==
    /\ ProvisionFrame
    /\ pc \in DdwrtPcs
    /\ events' = Append(events, Ev("interrupt", None, rec, TRUE))
    /\ pc' = "exit"
    /\ attempts' = 0
    /\ UNCHANGED <<args, queueFile, dbFile, device_queue, dqNone, device_db, dev_gen, idx,
                   rec, freeRec, prior_ssids, found, stat, station, queueAtStart>>

\* the operator, back on the home network, runs the same command again
Restart ==
    /\ ProvisionFrame
    /\ pc = "exit"
    /\ pc' = "main"
    /\ device_queue' = <<>>
    /\ dqNone' = TRUE
    /\ device_db' = EmptyDb
    /\ dev_gen' = 1
    /\ idx' = 1
    /\ rec' = 0
    /\ freeRec' = Pending(None, None)
    /\ prior_ssids' = {}
    /\ found' = None
    /\ attempts' = 0
    /\ stat' = FALSE
    /\ station' = HomeSSID
    /\ events' = <<>>
    /\ queueAtStart' = <<>>
    /\ UNCHANGED <<args, queueFile, dbFile>>

Next ==
    \/ Main
    \/ OtherOperation
    \/ NativeStart
    \/ NativeNext
    \/ NativeScan
    \/ NativeStatus
    \/ NativeStatusFailed
    \/ NativePush
    \/ NativeReconnect
    \/ NativeVerify
    \/ NativeInterrupt
    \/ MainExcept
    \/ DdwrtStart
    \/ DdwrtNext
    \/ DdwrtScan
    \/ DdwrtHandoff
    \/ DdwrtPush
    \/ DdwrtVerify
    \/ DdwrtInterrupt
    \/ Restart

Spec == Init /\ [][Next]_vars

\* ---------------------------------------------------------------------
\* Properties
\* ---------------------------------------------------------------------
\* the run goes through provision_native (the station itself joins the
\* factory access point)
NativeRun ==
    args.operation \in NativeOnlyOps \/ (args.operation = "provision-list" /\ args.ddwrt_name = 0)

\* the SSID filter the run gives to read_device_queue
SsidFilter == IF NativeRun THEN HomeSSID ELSE None

\* a further record is waiting behind the current one
MoreQueued == IF IsList THEN NextIdx(device_queue, idx, args.group, SsidFilter) # 0 ELSE TRUE

EventsOf(kinds) == {i \in DOMAIN events : events[i].e \in kinds}

\* C1: a queue entry that already carries CompletedTime when a
\* provision-list pass starts is never yielded by that pass, and its record
\* stays as it was, in memory and in the queue file, in the first pass and in
\* every re-run.
C1_CompletedEntriesUntouched ==
    \A k \in DOMAIN queueAtStart :
        IsCompleted(queueAtStart[k]) =>
            /\ device_queue[k] = queueAtStart[k]
            /\ queueFile.content[k] = queueAtStart[k]
            /\ \A i \in EventsOf({"yield"}) : events[i].entry # k

\* a re-run has walked past an entry that an earlier run completed
C1_Witness ==
    \E k \in DOMAIN queueAtStart :
        /\ queueAtStart[k].CompletedTime = Now
        /\ \E i \in EventsOf({"yield"}) : events[i].entry > k

\* C2: CompletedTime is recorded on a queue entry only after the device has
\* answered the status poll on the target network; an entry whose device
\* fails verification stays pending.
C2_CompletedOnlyAfterVerification ==
    \A k \in DOMAIN queueAtStart :
        (IsCompleted(device_queue[k]) /\ ~IsCompleted(queueAtStart[k])) =>
            \E i \in EventsOf({"verify_ok"}) : events[i].entry = k

\* C3: when the device does not answer the status query after the attach, no
\* credentials are pushed to it afterwards and no other device is taken up;
\* where the station itself had joined the factory AP, a reconnect to the
\* operator's network has been attempted by the time the run ends, and where
\* it had not (DD-WRT), the station is still on the operator's network.
C3_NoAnswerAbortsAttempt ==
    \A i \in EventsOf({"status_fail"}) :
        /\ \A j \in EventsOf({"push", "select"}) : j < i
        /\ (NativeRun /\ pc = "exit") => \E j \in EventsOf({"reconnect"}) : j > i
        /\ ~NativeRun => station = HomeSSID

\* the station joined a factory AP, the device did not answer, the run ended
C3_Witness ==
    /\ NativeRun
    /\ pc = "exit"
    /\ EventsOf({"status_fail"}) # {}

C6_PushFailureStopsRun ==
    \A i \in EventsOf({"push"}) :
        ~events[i].ok =>
            /\ \A j \in EventsOf({"select", "scan_none", "yield", "push"}) : j <= i
            /\ pc \in {"native_reconnect", "main_except", "exit"}
            /\ ~IsCompleted(CurRec)
            /\ IsList => ~IsCompleted(queueFile.content[rec])

\* the push failed, the run has ended, a further record was queued
C6_Witness ==
    /\ \E i \in EventsOf({"push"}) : ~events[i].ok
    /\ pc = "exit"
    /\ IsList
    /\ MoreQueued

\* C7: within one run no factory SSID is selected for provisioning more
\* than once, in the native path and in the DD-WRT path.
C7_NoSsidSelectedTwice ==
    \A i, j \in EventsOf({"select"}) : i # j => events[i].ssid # events[j].ssid

\* C8: with a wait budget of zero, a scan that finds no candidate is the
\* last scan of the run.
C8_ZeroWaitLooksOnce ==
    args.wait_time = 0 =>
        \A i \in EventsOf({"scan_none"}) :
            \A j \in EventsOf({"scan_none", "select"}) : j <= i

\* the list positions that are pending for the run when it starts
PendingAtStart ==
    {k \in DOMAIN queueAtStart : ~SkipsEntry(queueAtStart[k], args.group, SsidFilter)}

\* C9: in provision-list the k-th device discovered in a run is configured
\* with the k-th pending entry of the selected group.
C9_KthDeviceGetsKthEntry ==
    IsList =>
        \A i \in EventsOf({"select"}) :
            LET k == Cardinality({j \in EventsOf({"select"}) : j <= i})
            IN  /\ events[i].entry \in PendingAtStart
                /\ Cardinality({m \in PendingAtStart : m <= events[i].entry}) = k

\* the file is present and is not a JSON object with Format = 'automagic'
RegistryCorrupt == dbFile.exists /\ ~RegistryFileOk(dbFile)

\* C10: while the registry file is present but is not a JSON object carrying
\* Format = 'automagic', an operation that loads the registry never gets to
\* its work and the file is not rewritten.
C10_CorruptRegistryRefused ==
    [][(args.operation \in RegistryOps /\ RegistryCorrupt) =>
          (dbFile' = dbFile /\ events' = <<>> /\ pc' \in {"main", "exit"})]_vars

\* an operation that loads the registry has stopped on a corrupt file
C10_Witness ==
    /\ args.operation \in RegistryOps
    /\ RegistryCorrupt
    /\ pc = "exit"

\* ---------------------------------------------------------------------
\* The registry (device_db) under the operations that write it
\* ---------------------------------------------------------------------
\* the device IDs (MAC addresses) of the devices on the network
Macs == {MacOf(f) : f \in FactorySSIDs}

\* the addresses devices are probed at
ProbeIPs == {"ip1", "ip2"}

SettingsValues == {"s0", "s1"}

\* a record as the registry operations see it: ProbeIP stands for
\* rec['ConfigInput']['ProbeIP'], Origin for rec['ConfigStatus']['Origin']
DbRec(id, probe, ip, origin, tags, settings) ==
    [ID |-> id, ProbeIP |-> probe, IP |-> ip, Origin |-> origin, Tags |-> tags,
     settings |-> settings]

\* a queue record imported with a ProbeIP, before any device was contacted
ProbeQueueRec(ip) == DbRec(None, ip, None, None, None, None)

\* rec.update( device_db[ id ] ): every key of the stored record replaces the
\* key of rec; ConfigInput and ConfigStatus are in every stored record, the
\* other keys only once they were set
RecUpdate(r, stored) ==
    [ID       |-> IF stored.ID # None THEN stored.ID ELSE r.ID,
     ProbeIP  |-> stored.ProbeIP,
     IP       |-> IF stored.IP # None THEN stored.IP ELSE r.IP,
     Origin   |-> stored.Origin,
     Tags     |-> IF stored.Tags # None THEN stored.Tags ELSE r.Tags,
     settings |-> IF stored.settings # None THEN stored.settings ELSE r.settings]

\* complete_probe: the record rec after the device at its ProbeIP answered
\* with MAC id; cfg is the settings read from it (None: the read failed)
complete_probe(db, r, id, cfg) ==
    LET ip_address == r.ProbeIP
        merged     == IF id \in DOMAIN db THEN RecUpdate(r, db[id]) ELSE r
    IN  [merged EXCEPT !.settings = IF cfg # None THEN cfg ELSE @,
                       !.Origin = "probe-list",
                       !.IP = ip_address,
                       !.ID = id]

\* the run is started as operation op
RunAs(op) == args' = [args EXCEPT !.operation = op]

\* what the registry operations leave alone
RegistryFrame ==
    UNCHANGED <<queueFile, device_queue, dqNone, dev_gen, pc, idx, rec, freeRec,
                prior_ssids, found, attempts, stat, station, events, queueAtStart,
                flashVars, routerVars, pollVars, queryVars, linkVars>>

\* device_db is stored: write_json_file( args.device_db, device_db )
StoreDb(db) == device_db' = db /\ dbFile' = DbFileOf(db)

\* provision / provision-list: finish_up_device stores the record of the
\* device that was confirmed on the target network under its MAC
RegFinishUp ==
    /\ \E f \in FactorySSIDs, ip \in ProbeIPs, op \in {"provision", "provision-list"},
          cfg \in SettingsValues \cup {None} :
         /\ RunAs(op)
         /\ StoreDb(PutDb(device_db, MacOf(f), DbRec(MacOf(f), None, ip, op, None, cfg)))
    /\ RegistryFrame

\* probe-list: a record of the device queue is probed at its ProbeIP; the
\* device answering there reports the MAC id
RegProbeList ==
    /\ \E ip \in ProbeIPs, id \in Macs, cfg \in SettingsValues \cup {None} :
         /\ RunAs("probe-list")
         /\ StoreDb(PutDb(device_db, id, complete_probe(device_db, ProbeQueueRec(ip), id, cfg)))
    /\ RegistryFrame

\* query / apply / schema with --refresh: probe_list takes its records from
\* device_db itself; rec is the object stored under k, so what complete_probe
\* does to it is seen under k and under the key it is stored at again
RegRefresh ==
    /\ \E k \in DOMAIN device_db, id \in Macs, cfg \in SettingsValues \cup {None},
          op \in {"query", "apply"} :
         /\ device_db[k].ProbeIP # None
         /\ RunAs(op)
         /\ LET r == complete_probe(device_db, device_db[k], id, cfg)
            IN  StoreDb(PutDb(PutDb(device_db, k, r), id, r))
    /\ RegistryFrame

\* query / apply with --set-tag or --delete-tag: the stored record is
\* reached through the ID of the flattened record
RegSetTag ==
    /\ \E d \in DOMAIN device_db, t \in {"", "t1"}, op \in {"query", "apply"} :
         /\ device_db[d].ID \in DOMAIN device_db
         /\ RunAs(op)
         /\ StoreDb([device_db EXCEPT ![device_db[d].ID].Tags = t])
    /\ RegistryFrame

\* apply with --delete-device, the device being found at its stored IP
RegDelete ==
    /\ \E d \in DOMAIN device_db :
         /\ device_db[d].IP # None
         /\ device_db[d].ID \in DOMAIN device_db
         /\ RunAs("apply")
         /\ StoreDb([m \in DOMAIN device_db \ {device_db[d].ID} |-> device_db[m]])
    /\ RegistryFrame

\* replace: replace_device copies the settings of from_device to to_device
RegReplace ==
    /\ \E from_device \in DOMAIN device_db, to_device \in DOMAIN device_db :
         /\ device_db[from_device].settings # None
         /\ device_db[to_device].settings # None
         /\ RunAs("replace")
         /\ StoreDb([device_db EXCEPT ![to_device].settings = device_db[from_device].settings])
    /\ RegistryFrame

\* main and the provisioning functions are not running
ProvisionIdle ==
    /\ args = [operation |-> "provision", ddwrt_name |-> 0, group |-> None, wait_time |-> 0]
    /\ queueFile = QueueFileOf(<<>>)
    /\ dbFile = JsonFile(FALSE, TRUE, "dict", "missing", EmptyDb)
    /\ device_queue = <<>>
    /\ dqNone = TRUE
    /\ device_db = EmptyDb
    /\ dev_gen = 1
    /\ pc = "main"
    /\ idx = 1
    /\ rec = 0
    /\ freeRec = Pending(None, None)
    /\ prior_ssids = {}
    /\ found = None
    /\ attempts = 0
    /\ stat = FALSE
    /\ station = HomeSSID
    /\ events = <<>>
    /\ queueAtStart = <<>>

InitRegistry ==
    ProvisionIdle /\ FlashIdle /\ RouterIdle /\ PollIdle /\ QueryIdle /\ LinkIdle

NextRegistry ==
    \/ RegFinishUp
    \/ RegProbeList
    \/ RegRefresh
    \/ RegSetTag
    \/ RegDelete
    \/ RegReplace

SpecRegistry == InitRegistry /\ [][NextRegistry]_vars

\* C11: after any sequence of provision, provision-list, probe-list,
\* query / apply and replace runs, every entry of the registry is stored
\* under a device MAC and carries an ID equal to its key.
C11_EntriesKeyedByOwnId ==
    \A k \in DOMAIN device_db : k \in Macs /\ device_db[k].ID = k

\* ---------------------------------------------------------------------
\* flash_device
\* ---------------------------------------------------------------------
\* longest ota_timeout, in ticks
MaxTimeout == 12

\* longest time one pass of the polling loop takes (sleep and request), in ticks
MaxPassTicks == 2

\* flash_device: if passes > 10
NeverSeenPasses == 10

Versions == {"v1", "v2", "v3"}

\* a manifest whose build_id is the empty text '' (None stands for Python's
\* None): a str, and false where the code tests 'not new_version'
EmptyBuild == "''"

\* not new_version: no build is known (None) or its name is empty
Unknown(target) == target \in {None, EmptyBuild}

\* get_url returned nothing
NoAnswer == [status |-> "none", old_version |-> None]

\* what a device answers on /ota
OtaAnswers == [status : {"idle", "updating"}, old_version : Versions]

\* flash_device before the update without the test for 'updating'
flash_precheck_IgnoresUpdating(res, target) ==
    IF res = NoAnswer THEN "no_version"
    ELSE IF res.old_version = target THEN "up_to_date"
    ELSE "flash"

\* flash_device before the update: what the first /ota answer leads to
flash_precheck(res, target) ==
    IF res = NoAnswer THEN "no_version"
    ELSE IF res.old_version = target THEN "up_to_date"
    ELSE IF res.status = "updating" THEN "already_updating"
    ELSE "flash"

\* one pass of the polling loop with the end of the update never accepted
poll_outcome_NoSuccess(res, target, seen, n, nres) ==
    IF nres = NoAnswer THEN "no_answer"
    ELSE IF nres.status = "updating" THEN "updating"
    ELSE IF seen
         THEN IF Unknown(target) \/ res.old_version # nres.old_version
              THEN "mismatch"
              ELSE "break"
    ELSE IF n > NeverSeenPasses THEN "never_updating"
    ELSE "idle"

\* one pass of the polling loop: what the answer nres leads to, res being the
\* answer before the update, seen the flag seen_updating, n the pass number
poll_outcome(res, target, seen, n, nres) ==
    IF nres = NoAnswer THEN "no_answer"
    ELSE IF nres.status = "updating" THEN "updating"
    ELSE IF seen
         THEN IF Unknown(target) \/ res.old_version # nres.old_version
              THEN IF Unknown(target) \/ nres.old_version = target
                   THEN "success"
                   ELSE "mismatch"
              ELSE "break"
    ELSE IF n > NeverSeenPasses THEN "never_updating"
    ELSE "idle"

\* history: the shape of the polled answers. "U": 'updating' one or more
\* times; "UI": that, then an idle answer; "I": idle with the old build
\* every time; "other": anything else
TraceNext(shape, res, nres) ==
    IF nres = NoAnswer THEN "other"
    ELSE IF shape = "empty"
         THEN IF nres.status = "updating" THEN "U"
              ELSE IF nres.old_version = res.old_version THEN "I" ELSE "other"
    ELSE IF shape = "U" THEN (IF nres.status = "updating" THEN "U" ELSE "UI")
    ELSE IF shape = "I" /\ nres.status = "idle" /\ nres.old_version = res.old_version THEN "I"
    ELSE "other"

\* what flash_device leaves alone
FlashFrame == UNCHANGED <<provVars, routerVars, pollVars, queryVars, linkVars>>

\* return from flash_device
FlashReturn(ret, msg) ==
    /\ flash_pc' = "done"
    /\ flash_ret' = ret
    /\ flash_msg' = msg

\* flash_device up to the decision whether to send the update
FlashCheck ==
    /\ flash_pc = "check"
    /\ LET what == flash_precheck(result, new_version)
       IN  IF what = "flash"
           THEN flash_pc' = "trigger" /\ UNCHANGED <<flash_ret, flash_msg>>
           ELSE FlashReturn(what = "up_to_date", what)
    /\ UNCHANGED <<result, new_version, ota_timeout, dry_run, clock, seen_updating, passes,
                   new_result, triggered, poll_trace>>
    /\ FlashFrame

\* ota_flash and what follows it up to the polling loop; with new_version
\* None, print( "New version: " + new_version ) raises TypeError
FlashTrigger ==
    /\ flash_pc = "trigger"
    /\ IF dry_run
       THEN FlashReturn(FALSE, "dry_run") /\ UNCHANGED triggered
       ELSE /\ triggered' = TRUE
            /\ \E accepted \in BOOLEAN :
                 IF ~accepted THEN FlashReturn(FALSE, "could_not_flash")
                 ELSE IF new_version = None THEN FlashReturn(FALSE, "type_error")
                 ELSE IF ota_timeout = 0 THEN FlashReturn(TRUE, "sent")
                 ELSE flash_pc' = "poll" /\ flash_msg' = "sent" /\ UNCHANGED flash_ret
    /\ clock' = 0
    /\ seen_updating' = FALSE
    /\ passes' = 0
    /\ UNCHANGED <<result, new_version, ota_timeout, dry_run, new_result, poll_trace>>
    /\ FlashFrame

\* one pass of while time.time( ) < start_time + ota_timeout
FlashPoll ==
    /\ flash_pc = "poll"
    /\ clock < ota_timeout
    /\ passes' = passes + 1
    /\ \E d \in 1..MaxPassTicks : clock' = clock + d
    /\ \E nres \in OtaAnswers \cup {NoAnswer} :
         LET what == poll_outcome(result, new_version, seen_updating, passes', nres)
         IN  /\ new_result' = nres
             /\ poll_trace' = TraceNext(poll_trace, result, nres)
             /\ seen_updating' = (seen_updating \/ what = "updating")
             /\ IF what \in {"updating", "idle"}
                THEN UNCHANGED <<flash_pc, flash_ret, flash_msg>>
                ELSE IF what = "break"
                THEN FlashReturn(FALSE, "still_has")
                ELSE IF what = "no_answer"
                THEN FlashReturn(FALSE, flash_msg)
                ELSE FlashReturn(what = "success", what)
    /\ UNCHANGED <<result, new_version, ota_timeout, dry_run, triggered>>
    /\ FlashFrame

\* the loop ends on the deadline: fail_msg( "... still has ..." )
FlashTimeout ==
    /\ flash_pc = "poll"
    /\ clock >= ota_timeout
    /\ FlashReturn(FALSE, "still_has")
    /\ UNCHANGED <<result, new_version, ota_timeout, dry_run, clock, seen_updating, passes,
                   new_result, triggered, poll_trace>>
    /\ FlashFrame

\* flash_device is called on a device that answers result on /ota
InitFlash ==
    /\ ProvisionIdle
    /\ RouterIdle
    /\ PollIdle
    /\ QueryIdle
    /\ LinkIdle
    /\ flash_pc = "check"
    /\ result \in OtaAnswers \cup {NoAnswer}
    /\ new_version \in Versions \cup {None, EmptyBuild}
    /\ ota_timeout \in 0..MaxTimeout
    /\ dry_run \in BOOLEAN
    /\ clock = 0
    /\ seen_updating = FALSE
    /\ passes = 0
    /\ new_result = NoAnswer
    /\ flash_ret = FALSE
    /\ flash_msg = None
    /\ triggered = FALSE
    /\ poll_trace = "empty"

NextFlash ==
    \/ FlashCheck
    \/ FlashTrigger
    \/ FlashPoll
    \/ FlashTimeout

SpecFlash == InitFlash /\ [][NextFlash]_vars

\* C12: the OTA request is sent only when the device's build differs from
\* the target and its status is not 'updating'; a device already at the
\* target build gets success without a request, a device (not at the target)
\* that already reports 'updating' gets failure without a request.
C12_TriggerOnlyWhenNeeded ==
    /\ triggered => (result # NoAnswer /\ result.old_version # new_version
                     /\ result.status # "updating")
    /\ (flash_pc # "check" /\ result # NoAnswer /\ result.old_version = new_version)
          => (flash_pc = "done" /\ flash_ret /\ ~triggered)
    /\ (flash_pc # "check" /\ result # NoAnswer /\ result.old_version # new_version
        /\ result.status = "updating")
          => (flash_pc = "done" /\ ~flash_ret /\ ~triggered)

\* flash_device returned on a device that was already updating
C12_Witness ==
    /\ flash_pc = "done"
    /\ result.status = "updating"
    /\ result.old_version # new_version
    /\ flash_msg = "already_updating"

\* C13: when the device, idle on build v1 before the update, answers the
\* polls with 'updating' one or more times and then idle on the target build
\* v2, flash_device returns True and reports the update to that build.
C13_UpdateObservedIsSuccess ==
    (flash_pc = "done" /\ poll_trace = "UI" /\ new_version # None
     /\ new_result.old_version = new_version)
        => (flash_ret /\ flash_msg = "success")

\* updating twice, then idle on the target build
C13_Witness ==
    /\ flash_pc = "done"
    /\ poll_trace = "UI"
    /\ passes = 3
    /\ result = [status |-> "idle", old_version |-> "v1"]
    /\ new_result = [status |-> "idle", old_version |-> "v2"]
    /\ new_version = "v2"

\* C14: a device that answers idle with the old build on every poll until
\* the polling ends gets the report that 'updating' was never seen, whatever
\* the timeout.
C14_NeverStartedReported ==
    (flash_pc = "done" /\ poll_trace = "I") => flash_msg = "never_updating"

\* the kind of failure the polled answers show: 'updating' never seen,
\* 'updating' ended on a build that is not the target, or still 'updating'
FailureKind ==
    IF ~seen_updating THEN "never_updating"
    ELSE IF new_result.status = "updating" THEN "still_has"
    ELSE "mismatch"

\* C15: every failing run of the polling loop (every poll answered) is
\* reported as the one of never-started, version mismatch and timeout that
\* the answers show, each kind with its own report.
C15_FailuresDistinct ==
    (flash_pc = "done" /\ passes > 0 /\ ~flash_ret /\ new_result # NoAnswer)
        => flash_msg = FailureKind

\* ---------------------------------------------------------------------
\* The DD-WRT routers: connection, roles, mode programming
\* ---------------------------------------------------------------------
RouterNames == {"r1", "r2"}

\* the queue entries a run hands off at most
MaxHandoffs == 3

\* hardware identities (et0macaddr)
RouterMacs == {"hw1", "hw2"}

\* what nvram get wl_mode may answer
WlModes == {"ap", "sta", "wet"}

\* an entry of router_db: the identity stored by ddwrt-learn and whether a
\* snapshot was learned in ap mode and in sta mode
RouterEntries == [et0macaddr : RouterMacs, ap : BOOLEAN, sta : BOOLEAN]

Min(S) == CHOOSE x \in S : \A y \in S : x <= y

NodeCount == Cardinality(DOMAIN nodes)

\* ddwrt_connect_to_known_router with the identity test left out
known_router_check_NoIdentity(name, db, mac) ==
    IF name \notin DOMAIN db THEN "unknown" ELSE "ok"

\* ddwrt_connect_to_known_router: the tests on the name and on the identity
\* read from the device
known_router_check(name, db, mac) ==
    IF name \notin DOMAIN db THEN "unknown"
    ELSE IF mac # db[name].et0macaddr THEN "mismatch"
    ELSE "ok"

\* ddwrt_choose_roles after the connections: "exit" (sys.exit), "raise"
\* (current_ap[0] on an empty list) or "ok" with the two indexes
ddwrt_choose_roles(ns, db) ==
    LET n           == Cardinality(DOMAIN ns)
        ap_capable  == {i \in DOMAIN ns : db[ns[i].name].ap}
        sta_capable == {i \in DOMAIN ns : db[ns[i].name].sta}
        current_ap  == {i \in DOMAIN ns : ns[i].current_mode = "ap"}
        current_sta == {i \in DOMAIN ns : ns[i].current_mode = "sta"}
        Roles(a, t) == [status |-> "ok", ap |-> a, sta |-> t]
        Stop(how)   == [status |-> how, ap |-> 0, sta |-> 0]
    IN  IF ap_capable = {} \/ sta_capable = {} THEN Stop("exit")
        ELSE IF n <= 1 THEN Roles(0, n - 1)
        ELSE IF Cardinality(ap_capable) < 2
             THEN Roles(Min(ap_capable), (Min(ap_capable) + 1) % 2)
        ELSE IF Cardinality(sta_capable) < 2
             THEN Roles((Min(sta_capable) + 1) % 2, Min(sta_capable))
        ELSE IF Cardinality(current_ap) < 2
             THEN IF current_ap = {} THEN Stop("raise")
                  ELSE Roles(Min(current_ap), (Min(current_ap) + 1) % 2)
        ELSE IF Cardinality(current_sta) < 2
             THEN Roles((Min(sta_capable) + 1) % 2, Min(sta_capable))
        ELSE Roles(0, n - 1)

\* the commands ddwrt_program_mode has sent when it stops at stage failAt
\* ("none": it ran to its end) on the path branch
ProgramCmds(failAt, branch) ==
    {"nvram_set"}
      \cup (IF failAt \in {"commit", "final", "none"} THEN {"nvram_commit"} ELSE {})
      \cup (IF branch = "fast" THEN {"restart"} ELSE {})
      \cup (IF branch = "slow" THEN {"apply"} ELSE {})
      \cup (IF branch = "slow" /\ failAt = "none" THEN {"radio"} ELSE {})

\* ddwrt_program_mode: the full apply although the node is in the mode
program_branch_AlwaysSlow(current_mode, mode) == "slow"

\* ddwrt_program_mode: service restart when cn['current_mode'] is the mode
\* asked for, full apply otherwise
program_branch(current_mode, mode) == IF current_mode = mode THEN "fast" ELSE "slow"

\* what the router functions leave alone
RouterFrame == UNCHANGED <<provVars, flashVars, pollVars, queryVars, linkVars>>

\* ddwrt_choose_roles: nodes.append( ddwrt_connect_to_known_router( node ) )
RouterConnect ==
    /\ router_pc = "connect"
    /\ NodeCount < Len(ddwrt_name)
    /\ LET name == ddwrt_name[NodeCount + 1]
           what == known_router_check(name, router_db, routers[name].et0macaddr)
       IN  \E reachable \in BOOLEAN :
             IF what = "ok" /\ reachable
             THEN /\ nodes' = [i \in 0..NodeCount |->
                                 IF i < NodeCount THEN nodes[i]
                                 ELSE [name |-> name, current_mode |-> routers[name].wl_mode]]
                  /\ router_pc' = IF NodeCount + 1 = Len(ddwrt_name) THEN "choose" ELSE "connect"
             ELSE /\ router_pc' = "exit"
                  /\ UNCHANGED nodes
    /\ UNCHANGED <<router_db, ddwrt_name, routers, ap_node, sta_node, written, last_call,
                   run_pc, run_attempts, handed, slow, device_slow>>
    /\ RouterFrame

\* provision_ddwrt: ap_node and sta_node are the same router (the test on
\* et0macaddr of lines 2903, 2922 and 2935)
SameRouter(a, t) ==
    router_db[nodes[a].name].et0macaddr = router_db[nodes[t].name].et0macaddr

\* where a hand-off attempt starts: with two routers the AP is set first
AttemptStart(a, t) == IF SameRouter(a, t) THEN "sta" ELSE "ap_before"

\* ddwrt_choose_roles: the roles, once every named router is connected; then
\* the first device is discovered and its first hand-off attempt begins
RouterChoose ==
    /\ router_pc = "choose"
    /\ LET roles == ddwrt_choose_roles(nodes, router_db)
       IN  IF roles.status = "ok"
           THEN /\ ap_node' = roles.ap
                /\ sta_node' = roles.sta
                /\ router_pc' = "run"
                /\ run_pc' = AttemptStart(roles.ap, roles.sta)
                /\ run_attempts' = 1
           ELSE /\ router_pc' = "exit"
                /\ UNCHANGED <<ap_node, sta_node, run_pc, run_attempts>>
    /\ UNCHANGED <<router_db, ddwrt_name, routers, nodes, written, last_call, handed, slow,
                   device_slow>>
    /\ RouterFrame

\* ddwrt_program_mode with the tracked mode never updated
tracked_mode_Forgets(branch, current_mode, mode) == current_mode

\* ddwrt_program_mode: cn[ 'current_mode' ] = mode on the full-apply path
tracked_mode(branch, current_mode, mode) == IF branch = "slow" THEN mode ELSE current_mode

\* ddwrt_program_mode( cn, pgm, from_db, deletes ) for the mode pgm['wl_mode']
\* on the node at index n.  The nvram sets of pgm come first; the sets from
\* the snapshot cn['router'][mode] raise KeyError when there is none; any
\* router command may fail (ddwrt_get_single_line_result raises).
ddwrt_program_mode(n, mode) ==
    LET name     == nodes[n].name
        snapshot == IF mode = "ap" THEN router_db[name].ap ELSE router_db[name].sta
    IN  \E failAt \in {"pgm", "from_db", "commit", "final", "none"} :
          /\ ~snapshot => failAt \in {"pgm", "from_db"}
          /\ LET reached == failAt \in {"final", "none"}
                 branch  == IF reached THEN program_branch(nodes[n].current_mode, mode)
                            ELSE "none"
             IN  /\ last_call' = [name |-> name, mode |-> mode,
                                  before |-> nodes[n].current_mode,
                                  cmds |-> ProgramCmds(failAt, branch), branch |-> branch]
                 /\ written' = written \cup {name}
                 /\ nodes' = [nodes EXCEPT ![n].current_mode =
                                 tracked_mode(branch, nodes[n].current_mode, mode)]
                 /\ slow' = IF branch = "slow" THEN [slow EXCEPT ![name] = @ + 1] ELSE slow
                 /\ device_slow' = IF branch = "slow" THEN device_slow + 1 ELSE device_slow
                 /\ router_pc' = IF failAt = "none" THEN "run" ELSE "exit"

\* provision_ddwrt: ddwrt_set_ap_mode( ap_node, ... ), before the hand-off
\* with two routers, after the push with one
RouterSetAp ==
    /\ router_pc = "run"
    /\ run_pc \in {"ap_before", "ap_after"}
    /\ ddwrt_program_mode(ap_node, "ap")
    /\ run_pc' = IF run_pc = "ap_before" THEN "sta" ELSE "verify"
    /\ UNCHANGED <<router_db, ddwrt_name, routers, ap_node, sta_node, run_attempts, handed>>
    /\ RouterFrame

\* provision_ddwrt: ddwrt_set_sta_mode( sta_node, device_ssids[0] )
RouterSetSta ==
    /\ router_pc = "run"
    /\ run_pc = "sta"
    /\ ddwrt_program_mode(sta_node, "sta")
    /\ run_pc' = "push"
    /\ UNCHANGED <<router_db, ddwrt_name, routers, ap_node, sta_node, run_attempts, handed>>
    /\ RouterFrame

\* provision_ddwrt: get_status through the loopback and provision_device;
\* a refused push starts another attempt until attempts reaches 10
RouterPush ==
    /\ router_pc = "run"
    /\ run_pc = "push"
    /\ \E outcome \in {"no_status", "refused", "accepted"} :
         IF outcome = "accepted"
         THEN /\ run_pc' = IF SameRouter(ap_node, sta_node) THEN "ap_after" ELSE "verify"
              /\ UNCHANGED <<router_pc, run_attempts>>
         ELSE IF outcome = "refused" /\ run_attempts < MaxAttempts
         THEN /\ run_attempts' = run_attempts + 1
              /\ run_pc' = AttemptStart(ap_node, sta_node)
              /\ UNCHANGED router_pc
         ELSE /\ router_pc' = "exit"
              /\ UNCHANGED <<run_pc, run_attempts>>
    /\ UNCHANGED <<router_db, ddwrt_name, routers, nodes, ap_node, sta_node, written,
                   last_call, handed, slow, device_slow>>
    /\ RouterFrame

\* provision_ddwrt: check_status; the entry is completed and the next
\* device of the queue is discovered, until the queue is used up
RouterVerify ==
    /\ router_pc = "run"
    /\ run_pc = "verify"
    /\ \E confirmed \in BOOLEAN :
         IF confirmed
         THEN /\ handed' = handed + 1
              /\ IF handed + 1 < MaxHandoffs
                 THEN /\ run_pc' = AttemptStart(ap_node, sta_node)
                      /\ run_attempts' = 1
                      /\ device_slow' = 0
                      /\ UNCHANGED router_pc
                 ELSE /\ router_pc' = "exit"
                      /\ UNCHANGED <<run_pc, run_attempts, device_slow>>
         ELSE /\ router_pc' = "exit"
              /\ UNCHANGED <<run_pc, run_attempts, handed, device_slow>>
    /\ UNCHANGED <<router_db, ddwrt_name, routers, nodes, ap_node, sta_node, written,
                   last_call, slow>>
    /\ RouterFrame

\* provision-list is started with one or two -N options
InitRouter ==
    /\ ProvisionIdle
    /\ FlashIdle
    /\ PollIdle
    /\ QueryIdle
    /\ LinkIdle
    /\ ddwrt_name \in {<<"r1">>, <<"r1", "r2">>}
    /\ \E known \in SUBSET RouterNames : router_db \in [known -> RouterEntries]
    /\ routers \in [RouterNames -> [et0macaddr : RouterMacs, wl_mode : WlModes]]
    /\ nodes = <<>>
    /\ ap_node = 0
    /\ sta_node = 0
    /\ router_pc = "connect"
    /\ written = {}
    /\ last_call = NoCall
    /\ run_pc = "sta"
    /\ run_attempts = 0
    /\ handed = 0
    /\ slow = [r \in RouterNames |-> 0]
    /\ device_slow = 0

NextRouter ==
    \/ RouterConnect
    \/ RouterChoose
    \/ RouterSetAp
    \/ RouterSetSta
    \/ RouterPush
    \/ RouterVerify

SpecRouter == InitRouter /\ [][NextRouter]_vars

\* a named router whose identity differs from the stored one
Mismatched ==
    {ddwrt_name[i] : i \in {j \in DOMAIN ddwrt_name :
        /\ ddwrt_name[j] \in DOMAIN router_db
        /\ routers[ddwrt_name[j]].et0macaddr # router_db[ddwrt_name[j]].et0macaddr}}

\* C16: when the identity read from any named router differs from the
\* stored one, no router is sent an nvram write or a role switch and the run
\* never gets to discovering or processing devices.
C16_MismatchStopsRun ==
    Mismatched # {} => (written = {} /\ router_pc \in {"connect", "exit"})

\* the second named router is not the one that was learned; the run stopped
C16_Witness ==
    /\ router_pc = "exit"
    /\ NodeCount = 1
    /\ Mismatched = {"r2"}

\* C17: ddwrt_program_mode sends the full apply only when the tracked mode of
\* the node differs from the mode asked for; asked for the mode the node is
\* in, it sends the service restart and no apply; on either path the tracked
\* mode is the mode asked for afterwards.
C17_FastPathWhenInMode ==
    /\ "apply" \in last_call.cmds => last_call.before # last_call.mode
    /\ (last_call.branch # "none" /\ last_call.before = last_call.mode)
          => (last_call.branch = "fast" /\ "restart" \in last_call.cmds
              /\ last_call.cmds \cap {"apply", "radio"} = {})
    /\ last_call.branch # "none"
          => \A i \in DOMAIN nodes :
                nodes[i].name = last_call.name => nodes[i].current_mode = last_call.mode

\* STA asked of a node in STA: the restart was sent
C17_Witness ==
    /\ last_call.mode = "sta"
    /\ last_call.before = "sta"
    /\ last_call.branch = "fast"

\* C18: every router that ddwrt_choose_roles returns as AP node or as STA
\* node has an 'ap' snapshot and a 'sta' snapshot.
C18_RolesNeedBothSnapshots ==
    router_pc = "run" =>
        \A n \in {ap_node, sta_node} :
            router_db[nodes[n].name].ap /\ router_db[nodes[n].name].sta

\* ---------------------------------------------------------------------
\* The polling loops of probe-list and of apply
\* ---------------------------------------------------------------------
PollDevices == {"d1", "d2"}

\* the list order of the selected devices
PollOrder == <<"d1", "d2">>

\* a Periodic device answers within this many passes when it answers at all
MaxWake == 2

\* query: if passes > 10 and continuous_count == total_count: break
ApplyPassLimit == 10

\* url_read( ..., tmout = 0.5 ) gets an answer from the device in this pass
Responds(d) == d \notin unresponsive /\ wake[d] = 0

\* 'Access' not in data or data[ 'Access' ] == 'Continuous'
IsContinuous(d) == access[d] = "Continuous"

\* todo = [ r for r in todo if r not in done ]
Remaining(list, reached) ==
    LET Keep(d) == d \notin reached IN SelectSeq(list, Keep)

\* half a second later
WakeAfterPass == [d \in DOMAIN wake |-> IF wake[d] > 0 THEN wake[d] - 1 ELSE 0]

\* what the polling loops leave alone
PollFrame == UNCHANGED <<provVars, flashVars, routerVars, queryVars, linkVars>>

\* probe_list: one pass of while len( todo ): the for loop stops at the
\* first device that answers; timeouts are passed over
PollProbePass ==
    /\ poll_pc = "probe"
    /\ Len(todo) > 0
    /\ LET answering == {i \in DOMAIN todo : Responds(todo[i])}
           reached   == IF answering = {} THEN {} ELSE {todo[Min(answering)]}
       IN  /\ done' = done \cup reached
           /\ todo' = Remaining(todo, done')
           /\ poll_pc' = IF Len(todo') = 0 THEN "done" ELSE "probe"
    /\ wake' = WakeAfterPass
    /\ poll_tick' = 1 - poll_tick
    /\ UNCHANGED <<poll_passes, continuous_count, total_count, access, unresponsive,
                   apply_reads, configured_settings, loop_data, settings_of>>
    /\ PollFrame

\* query: configured_settings after the for loop of one pass: what the last
\* call of apply in it returned
last_configured(list, reached, reads, before) ==
    IF reached = {} THEN before
    ELSE IF ~reads THEN None
    ELSE list[CHOOSE i \in DOMAIN list :
                 /\ list[i] \in reached
                 /\ \A j \in DOMAIN list : list[j] \in reached => j <= i]

\* query with the operation apply: one pass of while( todo ): find_device on
\* every device of todo, then the test that leaves the loop
PollApplyPass ==
    /\ poll_pc = "apply"
    /\ Len(todo) > 0
    /\ LET reached == {todo[i] : i \in {j \in DOMAIN todo : Responds(todo[j])}}
           n       == IF poll_passes > ApplyPassLimit THEN poll_passes ELSE poll_passes + 1
       IN  /\ poll_passes' = n
           /\ done' = done \cup reached
           /\ total_count' = total_count - Cardinality(reached)
           /\ continuous_count' =
                 continuous_count - Cardinality({d \in reached : IsContinuous(d)})
           /\ todo' = Remaining(todo, done')
           /\ poll_pc' = IF n > ApplyPassLimit /\ continuous_count' = total_count'
                         THEN "done"
                         ELSE IF Len(todo') = 0 THEN "done" ELSE "apply"
           \* ( configured_settings, need_write ) = apply( ... ) for each device
           \* found; data is left at the last element of todo
           /\ configured_settings' = last_configured(todo, reached, apply_reads,
                                                     configured_settings)
           /\ loop_data' = todo[Len(todo)]
           \* after the loop: if configured_settings:
           \*     device_db[ data[ 'ID' ] ][ 'settings' ] = configured_settings
           /\ settings_of' = IF poll_pc' = "done" /\ configured_settings' # None
                             THEN [settings_of EXCEPT ![loop_data'] = configured_settings']
                             ELSE settings_of
    /\ wake' = WakeAfterPass
    /\ poll_tick' = 1 - poll_tick
    /\ UNCHANGED <<access, unresponsive, apply_reads>>
    /\ PollFrame

\* probe-list or apply is started with a non-empty selection
InitPoll ==
    /\ ProvisionIdle
    /\ FlashIdle
    /\ RouterIdle
    /\ QueryIdle
    /\ LinkIdle
    /\ poll_pc \in {"probe", "apply"}
    /\ \E sel \in SUBSET PollDevices \ {{}} :
         /\ todo = Remaining(PollOrder, PollDevices \ sel)
         /\ access \in [sel -> {"Continuous", "Periodic"}]
         /\ unresponsive \in SUBSET sel
         /\ wake \in [sel -> 0..MaxWake]
         /\ \A d \in sel : (d \in unresponsive \/ access[d] = "Continuous") => wake[d] = 0
         /\ total_count = Cardinality(sel)
         /\ settings_of = [d \in sel |-> "old"]
         /\ continuous_count = Cardinality({d \in sel : access[d] = "Continuous"})
    /\ done = {}
    /\ poll_passes = 0
    /\ poll_tick = 0
    /\ apply_reads \in IF poll_pc = "apply" THEN BOOLEAN ELSE {FALSE}
    /\ configured_settings = None
    /\ loop_data = None

NextPoll ==
    \/ PollProbePass
    \/ PollApplyPass

SpecPoll == InitPoll /\ [][NextPoll]_vars

\* a pass of either loop always comes to its end: every request in it has a
\* timeout of half a second, and the program runs on to the next pass
SpecPollFair == SpecPoll /\ WF_vars(PollProbePass) /\ WF_vars(PollApplyPass)

\* C20: the polling loops of probe-list and of apply come to an end, also
\* when a selected device never answers.
C20_PollingTerminates == <>(poll_pc = "done")

\* ---------------------------------------------------------------------
\* flatten and the column resolution of query
\* ---------------------------------------------------------------------
\* a JSON value: a scalar ("s"), an object ("d", its keys in order, each
\* with its value) or an array ("l")
Scalar(n) == [t |-> "s", s |-> n, items |-> <<>>, elems |-> <<>>]

Dict(items) == [t |-> "d", s |-> 0, items |-> items, elems |-> <<>>]

List(elems) == [t |-> "l", s |-> 0, items |-> <<>>, elems |-> elems]

\* the scalar values of the records
ScalarValues == {1, 2}

\* the longest array
MaxList == 2

\* the most keys an object has
MaxKeys == 2

\* str( v )
str(n) == IF n = 1 THEN "1" ELSE IF n = 2 THEN "2" ELSE "n"

\* str( i ) for an array index
IndexSegment(i) == IF i = 0 THEN "0" ELSE IF i = 1 THEN "1" ELSE "2"

NonEmptySeqs(S, n) == UNION {[1..m -> S] : m \in 1..n}

\* the keys of an object are distinct
DistinctKeys(items) == \A i, j \in DOMAIN items : i # j => items[i][1] # items[j][1]

InnerDicts ==
    {Dict(items) : items \in {q \in NonEmptySeqs({"x", "y"} \X {Scalar(n) : n \in ScalarValues},
                                            MaxKeys) : DistinctKeys(q)}}

Elements == {Scalar(n) : n \in ScalarValues} \cup {Dict(<< <<"x", Scalar(n)>> >>) : n \in ScalarValues}

TopItems ==
    ({"x", "y"} \X {Scalar(n) : n \in ScalarValues})
      \cup ({"a"} \X InnerDicts)
      \cup ({"l", "m"} \X {List(e) : e \in NonEmptySeqs(Elements, MaxList)})

\* the records flatten is tried on
Trees == {Dict(items) : items \in {q \in NonEmptySeqs(TopItems, MaxKeys) : DistinctKeys(q)}}

\* a.update( b ) on dicts: the entries of b replace those of a
DictUpdate(a, b) == b @@ a

RECURSIVE flatten(_, _)
RECURSIVE flatten_keys(_, _, _, _)
RECURSIVE flatten_elems(_, _, _, _)

\* flatten: for i in range(len(d[k])): new_data.update( tmp_data )
flatten_elems(elems, prefix, i, new_data) ==
    IF i > Len(elems) THEN new_data
    ELSE flatten_elems(elems, prefix, i + 1,
             DictUpdate(new_data, flatten(elems[i], prefix \o <<IndexSegment(i - 1)>>)))

\* flatten: for k in d, with the keys seen later given way to those seen
\* first: new_data.update( result ); result = new_data
flatten_keys(items, prefix, i, seen) ==
    IF i > Len(items) THEN seen
    ELSE LET k        == items[i][1]
             child    == items[i][2]
             new_data == IF child.t = "d" THEN flatten(child, prefix \o <<k>>)
                         ELSE IF child.t = "l"
                              THEN flatten_elems(child.elems, prefix \o <<k>>, 1, EmptyMap)
                         ELSE (<<k>> :> str(child.s)) @@ ((prefix \o <<k>>) :> str(child.s))
         IN  flatten_keys(items, prefix, i + 1, DictUpdate(new_data, seen))

\* flatten( d, prefix ): the data map.  A path is the sequence of the
\* segments that the code joins with '.'
flatten(d, prefix) ==
    IF d.t = "d" THEN flatten_keys(d.items, prefix, 1, EmptyMap)
    ELSE (prefix :> (IF d.t = "s" THEN str(d.s) ELSE "list"))

\* the leaves of a record, each with its fully-qualified path
RECURSIVE Leaves(_, _)
Leaves(d, prefix) ==
    IF d.t = "s" THEN {<<prefix, d.s>>}
    ELSE IF d.t = "d"
         THEN UNION {Leaves(d.items[i][2], prefix \o <<d.items[i][1]>>) : i \in DOMAIN d.items}
    ELSE UNION {Leaves(d.elems[i], prefix \o <<IndexSegment(i - 1)>>) : i \in DOMAIN d.elems}

\* what flatten and the column resolution leave alone
FlattenFrame == UNCHANGED <<provVars, flashVars, routerVars, pollVars,
                           selectVars, applyVars, linkVars>>

\* query: ( data, new_guide ) = flatten( device_db[ d ] )
Flatten ==
    /\ flat_pc = "start"
    /\ flat' = flatten(tree, <<>>)
    /\ flat_pc' = "flattened"
    /\ UNCHANGED <<tree, query_column, column_map>>
    /\ FlattenFrame

\* the column names asked for with --query-columns
ColumnNames == {<<"x">>, <<"0">>, <<"0", "x">>, <<"a", "x">>, <<"z">>}

\* g.endswith( "." + q )
EndsWith(g, q) ==
    /\ Len(g) > Len(q)
    /\ SubSeq(g, Len(g) - Len(q) + 1, Len(g)) = q

\* the keys of the guide that end in the column name
Matches(guide, q) == {g \in guide : EndsWith(g, q)}

\* query: a column that is no key of the guide is mapped to a key that ends
\* in it; each further match replaces the one before, so the order of the
\* guide decides which is kept.  The keys of the guide are those of the data.
ResolveColumn ==
    /\ flat_pc = "flattened"
    /\ \E q \in ColumnNames :
         /\ query_column' = q
         /\ IF q \in DOMAIN flat \/ Matches(DOMAIN flat, q) = {}
            THEN column_map' = {q}
            ELSE \E g \in Matches(DOMAIN flat, q) : column_map' = {g}
    /\ flat_pc' = "resolved"
    /\ UNCHANGED <<tree, flat>>
    /\ FlattenFrame

InitFlatten ==
    /\ ProvisionIdle
    /\ FlashIdle
    /\ RouterIdle
    /\ PollIdle
    /\ LinkIdle
    /\ SelectIdle
    /\ ApplyIdle
    /\ flat_pc = "start"
    /\ tree \in Trees
    /\ flat = EmptyMap
    /\ query_column = <<>>
    /\ column_map = {}

NextFlatten ==
    \/ Flatten
    \/ ResolveColumn

SpecFlatten == InitFlatten /\ [][NextFlatten]_vars

\* C25: the map that flatten returns has, for each leaf of the record, an
\* entry under the leaf's fully-qualified path that holds the leaf's
\* stringified value.
C25_EveryLeafUnderItsPath ==
    flat_pc # "start" =>
        \A leaf \in Leaves(tree, <<>>) :
            leaf[1] \in DOMAIN flat /\ flat[leaf[1]] = str(leaf[2])

\* the keys that occur below the top level of the record
NestedKeys(d) == {leaf[1][Len(leaf[1])] : leaf \in {l \in Leaves(d, <<>>) : Len(l[1]) >= 2}}

\* C26: when a key occurs at the top level of the record and inside a nested
\* object too, the entry of the flattened map under that short name holds
\* the top-level value, whatever the order of the keys.
C26_TopLevelKeyWins ==
    flat_pc # "start" =>
        \A i \in DOMAIN tree.items :
            LET k == tree.items[i][1]
                v == tree.items[i][2]
            IN  (v.t = "s" /\ k \in NestedKeys(tree)) => flat[<<k>>] = str(v.s)

\* C24: a column name that is no key of the guide and in which two or more
\* paths end is not resolved to one of them: all of them are listed, or the
\* column is refused.
C24_AmbiguousColumnNotPicked ==
    (/\ flat_pc \in {"resolved", "refused"}
     /\ query_column \notin DOMAIN flat
     /\ Cardinality(Matches(DOMAIN flat, query_column)) >= 2)
        => (flat_pc = "refused" \/ column_map = Matches(DOMAIN flat, query_column))

\* ---------------------------------------------------------------------
\* The selection of records: match_rec in query and in probe_list
\* ---------------------------------------------------------------------
TagSets == {<<"A">>, <<"B">>, <<"A", "B">>}

\* ConfigInput as append_list builds it from a row of the import file
ConfigInputs ==
    {Rec(f, hasTags, IF hasTags THEN tags ELSE <<>>) :
        f \in UNION {[keys -> {"g1", "g2", "Continuous", "Periodic", "ip1"}] :
                        keys \in SUBSET {"Group", "Access", "ProbeIP"}},
        hasTags \in BOOLEAN, tags \in TagSets}

\* the keys beside ConfigInput and ConfigStatus: none in the queue; ID and,
\* after --set-tag, Tags in the registry
TopLevels ==
    {Rec(f, hasTags, IF hasTags THEN tags ELSE <<>>) :
        f \in {EmptyMap, [k \in {"ID"} |-> "m1"]},
        hasTags \in BOOLEAN, tags \in {<<"A">>, <<"B">>}}

WellTyped(f) ==
    /\ "Group" \in DOMAIN f => f["Group"] \in {"g1", "g2"}
    /\ "Access" \in DOMAIN f => f["Access"] \in {"Continuous", "Periodic"}
    /\ "ProbeIP" \in DOMAIN f => f["ProbeIP"] = "ip1"

\* rec['Tags'].split(',')
split(tags) == IF tags = <<>> THEN {""} ELSE {tags[i] : i \in DOMAIN tags}

\* the short keys of flatten( rec ): the key seen first is kept, and
\* ConfigInput is the first key of a record
FlatView(entry) ==
    Rec(entry.ConfigInput.fields @@ entry.top.fields,
        entry.ConfigInput.hasTags \/ entry.top.hasTags,
        IF entry.ConfigInput.hasTags THEN entry.ConfigInput.Tags ELSE entry.top.Tags)

\* the record itself, as probe_list hands it to match_rec
RawView(entry) == entry.top

\* match_rec without the test on the tag
match_rec_NoTag(r, query_conditions, match_tag, group, restore_device, access_filter) ==
    /\ \A q \in query_conditions : q[1] \in DOMAIN r.fields /\ r.fields[q[1]] = q[2]
    /\ ~(group # None /\ ("Group" \notin DOMAIN r.fields \/ r.fields["Group"] # group))
    /\ ~(restore_device # None /\ restore_device # "ALL"
            /\ restore_device # r.fields["ID"])
    /\ access_filter # "ALL" =>
          (IF "Access" \notin DOMAIN r.fields THEN "Continuous" ELSE r.fields["Access"]) = access_filter

\* match_rec( rec, query_conditions, match_tag, group, restore_device, access )
match_rec(r, query_conditions, match_tag, group, restore_device, access_filter) ==
    /\ \A q \in query_conditions : q[1] \in DOMAIN r.fields /\ r.fields[q[1]] = q[2]
    /\ ~(match_tag # None /\ (~r.hasTags \/ match_tag \notin split(r.Tags)))
    /\ ~(group # None /\ ("Group" \notin DOMAIN r.fields \/ r.fields["Group"] # group))
    /\ ~(restore_device # None /\ restore_device # "ALL"
            /\ restore_device # r.fields["ID"])
    /\ access_filter # "ALL" =>
          (IF "Access" \notin DOMAIN r.fields THEN "Continuous" ELSE r.fields["Access"]) = access_filter

\* what the selection leaves alone
SelectFrame == UNCHANGED <<provVars, flashVars, routerVars, pollVars,
                           flattenVars, applyVars, linkVars>>

\* query: if match_rec( data, ... ) on the flattened record
SelQuery ==
    /\ sel_pc = "start"
    /\ selected' = match_rec(FlatView(sel_entry), sel_args.query_conditions,
                             sel_args.match_tag, sel_args.group, None, sel_args.access)
    /\ sel_pc' = "query"
    /\ UNCHANGED <<sel_entry, sel_args, tag_edit, need_write, sel_runs, set_tags, tag_deleted>>
    /\ SelectFrame

\* probe_list: if match_rec( rec, ... ) and 'ProbeIP' in rec['ConfigInput']
SelProbe ==
    /\ sel_pc = "start"
    /\ selected' = (/\ match_rec(RawView(sel_entry), sel_args.query_conditions,
                                 sel_args.match_tag, sel_args.group, None, sel_args.access)
                    /\ "ProbeIP" \in DOMAIN sel_entry.ConfigInput.fields)
    /\ sel_pc' = "probe"
    /\ UNCHANGED <<sel_entry, sel_args, tag_edit, need_write, sel_runs, set_tags, tag_deleted>>
    /\ SelectFrame

\* ','.join( tags ): the parts in the order the set gives them
RECURSIVE join(_)
join(tags) ==
    IF tags = {} THEN <<>>
    ELSE LET t == CHOOSE x \in tags : TRUE IN <<t>> \o join(tags \ {t})

\* old_tags = data['Tags'].split(',') if 'Tags' in data and data['Tags'] != '' else []
old_tags(data) == IF data.hasTags /\ data.Tags # <<>> THEN split(data.Tags) ELSE {}

\* query: the Tags of a selected record with --set-tag and --delete-tag:
\* both are computed from old_tags, the second assignment replaces the first
edit_tags(data, set_tag, delete_tag) ==
    IF delete_tag # None THEN join(old_tags(data) \ {delete_tag})
    ELSE IF set_tag # None THEN join(old_tags(data) \cup {set_tag})
    ELSE data.Tags

\* query: if args.set_tag or args.delete_tag, for a selected record of the
\* registry: device_db[ data[ 'ID' ] ][ 'Tags' ] = data[ 'Tags' ]
SelEditTags ==
    /\ sel_pc = "query"
    /\ selected
    /\ "ID" \in DOMAIN FlatView(sel_entry).fields
    /\ \E set_tag \in {None, "T", "A"}, delete_tag \in {None, "T", "A"} :
         /\ set_tag # None \/ delete_tag # None
         /\ tag_edit' = [set_tag |-> set_tag, delete_tag |-> delete_tag]
         /\ sel_entry' = [sel_entry EXCEPT
                            !.top.hasTags = TRUE,
                            !.top.Tags = edit_tags(FlatView(sel_entry), set_tag, delete_tag)]
         /\ set_tags' = IF delete_tag = None THEN set_tags \cup {set_tag} ELSE set_tags
         /\ tag_deleted' = (tag_deleted \/ delete_tag # None)
    /\ need_write' = TRUE
    /\ sel_pc' = "edited"
    /\ UNCHANGED <<sel_args, selected, sel_runs>>
    /\ SelectFrame

\* the runs of query on one registry
MaxRuns == 2

\* the next run of query: the registry is read again from the file the run
\* before wrote, the --match-tag is the one of the new command line
SelNextRun ==
    /\ sel_pc \in {"query", "edited"}
    /\ sel_runs < MaxRuns
    /\ "ID" \in DOMAIN FlatView(sel_entry).fields
    /\ \E match_tag \in {None, "A", "T"} :
         sel_args' = [sel_args EXCEPT !.match_tag = match_tag]
    /\ sel_runs' = sel_runs + 1
    /\ sel_pc' = "start"
    /\ selected' = FALSE
    /\ tag_edit' = [set_tag |-> None, delete_tag |-> None]
    /\ need_write' = FALSE
    /\ UNCHANGED <<sel_entry, set_tags, tag_deleted>>
    /\ SelectFrame

InitSelect ==
    /\ ProvisionIdle
    /\ FlashIdle
    /\ RouterIdle
    /\ PollIdle
    /\ LinkIdle
    /\ FlattenIdle
    /\ ApplyIdle
    /\ sel_pc = "start"
    /\ \E ci \in {c \in ConfigInputs : WellTyped(c.fields)}, top \in TopLevels :
         sel_entry = [ConfigInput |-> ci, top |-> top]
    /\ sel_args \in [query_conditions : {{}, {<<"Group", "g1">>}, {<<"Access", "Periodic">>}},
                     match_tag : {None, "A"},
                     group : {None, "g1"},
                     access : {"ALL", "Continuous", "Periodic"}]
    /\ selected = FALSE
    /\ tag_edit = [set_tag |-> None, delete_tag |-> None]
    /\ need_write = FALSE
    /\ sel_runs = 0
    /\ set_tags = {}
    /\ tag_deleted = FALSE

NextSelect ==
    \/ SelQuery
    \/ SelProbe
    \/ SelEditTags
    \/ SelNextRun

SpecSelect == InitSelect /\ [][NextSelect]_vars

\* the Access of a record, Continuous when it has none
AccessOf(f) == IF "Access" \in DOMAIN f THEN f["Access"] ELSE "Continuous"

\* C21: match_rec is true for a flattened record exactly when every
\* name=value condition holds on it, the match-tag (if given) is one of its
\* comma-separated Tags, the group (if given) is its Group, and the access
\* filter is ALL or its Access (Continuous when absent).
C21_MatchRecSelects ==
    sel_pc = "query" =>
        LET r == FlatView(sel_entry)
        IN  selected <=>
              /\ \A q \in sel_args.query_conditions :
                    q[1] \in DOMAIN r.fields /\ r.fields[q[1]] = q[2]
              /\ sel_args.match_tag # None =>
                    (r.hasTags /\ \E i \in DOMAIN r.Tags : r.Tags[i] = sel_args.match_tag)
              /\ sel_args.group # None =>
                    ("Group" \in DOMAIN r.fields /\ r.fields["Group"] = sel_args.group)
              /\ sel_args.access \in {"ALL", AccessOf(r.fields)}

\* a record tagged A,B is selected by the match-tag A
C21_Witness ==
    /\ sel_pc = "query"
    /\ selected
    /\ sel_args.match_tag = "A"
    /\ FlatView(sel_entry).Tags = <<"A", "B">>

\* C22: probe-list probes exactly the entries that have a ProbeIP, whose
\* imported Group is the --group given, and whose imported Access matches
\* the access filter.
C22_ProbeListSelects ==
    sel_pc = "probe" =>
        LET cfg == sel_entry.ConfigInput.fields
        IN  (sel_args.query_conditions = {} /\ sel_args.match_tag = None) =>
              (selected <=>
                 /\ "ProbeIP" \in DOMAIN cfg
                 /\ sel_args.group # None => ("Group" \in DOMAIN cfg /\ cfg["Group"] = sel_args.group)
                 /\ sel_args.access \in {"ALL", AccessOf(cfg)})

\* C23: after a query or apply run with --set-tag T that selects a device,
\* whatever other options are given, the registry is written back and the
\* stored Tags of the device contain T.
C23_SetTagStored ==
    (sel_pc = "edited" /\ tag_edit.set_tag # None) =>
        /\ need_write
        /\ tag_edit.set_tag \in split(sel_entry.top.Tags)

\* ---------------------------------------------------------------------
\* apply on one device: --ota, --url, --settings, --restore-device
\* ---------------------------------------------------------------------
exclude_setting ==
    {"unixtime", "fw", "time", "hwinfo", "build_info", "device", "ison", "has_timer",
     "power", "connected", "ext_humidity", "ext_switch", "ext_sensors", "ext_temperature",
     "actions", "schedule", "schedule_rules", "login", "wifi_sta", "wifi_sta1", "wifi_ap"}

\* the most channels an array of the settings has
MaxChannels == 1

\* scalar values of the settings: 0 is false, 1 is true or any other value,
\* 2 is the text 'false'
TextFalse == 2

Item(k, v) == << <<k, v>> >>

\* a key of the settings that is there or not
Optional(items) == {<<>>} \cup items

ChannelKinds ==
    {Dict(Item("name", Scalar(1)) \o Item("ison", Scalar(0))),
     Dict(Item("name", Scalar(1)) \o Item("schedule", Scalar(0))
            \o Item("schedule_rules", List(<<Scalar(1)>>)))}

\* the settings of the devices, as get_settings_url gave them
StoredSettings ==
    {Dict(Item("name", Scalar(1)) \o fw \o cloud \o sntp \o mqtt \o login \o relays \o alt) :
        fw     \in Optional({Item("fw", Scalar(1))}),
        cloud  \in Optional({Item("cloud", Dict(Item("enabled", Scalar(1))
                                                   \o Item("connected", Scalar(0))))}),
        sntp   \in Optional({Item("sntp", Dict(Item("server", Scalar(1))
                                                  \o Item("enabled", Scalar(e)))) :
                                e \in {0, 1, TextFalse}}),
        mqtt   \in Optional({Item("mqtt", Dict(Item("enable", Scalar(1))
                                                  \o Item("server", Scalar(1))))}),
        login  \in Optional({Item("login", Dict(Item("enabled", Scalar(1))))}),
        relays \in Optional({Item("relays", List(c)) : c \in NonEmptySeqs(ChannelKinds, MaxChannels)}),
        alt    \in Optional({Item("alt_modes", List(<<Scalar(1)>>))})}

\* a dict of scalars as a map from the key to the value; a value is held as
\* the sequence of its parts, '' being the empty one
Fields(d) ==
    [k \in {d.items[i][1] : i \in {j \in DOMAIN d.items : d.items[j][2].t = "s"}} |->
        <<(d.items[CHOOSE i \in DOMAIN d.items : d.items[i][1] = k][2]).s>>]

HasKey(d, k) == \E i \in DOMAIN d.items : d.items[i][1] = k

Get(d, k) == d.items[CHOOSE i \in DOMAIN d.items : d.items[i][1] = k][2]

\* dict( [ [ prefix + f, fields[ f ] ] for f in fields ] )
Prefixed(prefix, fields) ==
    [p \in {prefix \o f : f \in DOMAIN fields} |->
        fields[CHOOSE f \in DOMAIN fields : prefix \o f = p]]

Request(op, kind, path, params) == [op |-> op, kind |-> kind, path |-> path, params |-> params]

NoParams == [p \in {} |-> <<>>]

\* re.sub( 's$', '', s )
Singular(name) == IF name = "relays" THEN "relay" ELSE name

\* apply, restore of a sub-object: the fields go out as they are stored
object_request(name, d) ==
    LET fields == Fields(d)
    IN  IF name = "sntp"
        THEN Request("restore", "change", <<"settings">>,
                     "sntp_server" :> (IF fields["enabled"] = <<TextFalse>> THEN <<>>
                                       ELSE fields["server"]))
        ELSE IF name \in {"mqtt", "coiot"}
        THEN Request("restore", "change", <<"settings">>, Prefixed(name \o "_", fields))
        ELSE Request("restore", "change", <<"settings", name>>, fields)

\* apply, restore of an array: one request per channel without the excluded
\* fields, and one more for its schedule
channel_requests(name, channels) ==
    UNION {LET channel == channels[i]
               all     == Fields(channel)
               flds    == [f \in DOMAIN all \ exclude_setting |-> all[f]]
               target  == <<"settings", Singular(name), IndexSegment(i - 1)>>
           IN  IF channel.t # "d" THEN {}
               ELSE {Request("restore", "change", target, flds)}
                      \cup (IF HasKey(channel, "schedule") /\ HasKey(channel, "schedule_rules")
                            THEN {Request("restore", "change", target,
                                    ("schedule" :> all["schedule"])
                                      @@ ("schedule_rules" :>
                                            [j \in DOMAIN Get(channel, "schedule_rules").elems |->
                                                Get(channel, "schedule_rules").elems[j].s]))}
                            ELSE {})
           : i \in DOMAIN channels}

\* apply, the restore branch: apply_list.  No two of its requests set the
\* same parameter; the list is held as a set
restore_requests(settings) ==
    LET keys(kind) == {i \in DOMAIN settings.items :
                          /\ settings.items[i][2].t = kind
                          /\ settings.items[i][1] \notin exclude_setting}
        http_args  == [k \in DOMAIN Fields(settings) \ exclude_setting |-> Fields(settings)[k]]
    IN  {object_request(settings.items[i][1], settings.items[i][2]) : i \in keys("d")}
          \cup UNION {channel_requests(settings.items[i][1], settings.items[i][2].elems) :
                         i \in keys("l")}
          \cup {Request("restore", "change", <<"settings">>, http_args)}

\* ota_flash sends the request also with --dry-run
ota_flash_IgnoresDryRun(is_dry_run) == "send"

\* ota_flash: print( url ) with --dry-run, get_url without
ota_flash(is_dry_run) == IF is_dry_run THEN "print" ELSE "send"

OtaRead == Request("ota", "read", <<"ota">>, NoParams)

OtaUpdate == Request("ota", "change", <<"ota">>, "update" :> <<1>>)

UrlRequest == Request("url", "change", <<"url">>, NoParams)

SettingsRequest == Request("settings", "change", <<"settings">>, "name" :> <<1>>)

SettingsRead == Request("settings", "read", <<"settings">>, NoParams)

\* what apply leaves alone
ApplyFrame == UNCHANGED <<provVars, flashVars, routerVars, pollVars,
                           flattenVars, selectVars, linkVars>>

\* apply: configured_settings is read back and need_write set after --url,
\* --settings and --restore-device, without --dry-run
apply_reads_back(a) == ~a.dry_run /\ (a.apply_urls \/ a.settings \/ a.restore_device)

\* apply: del device_db[ data[ 'ID' ] ], then device_db[ data[ 'ID' ] ][ 'settings' ]
\* of --restore-device raises KeyError
restore_raises(delete_device, restore_device) == delete_device /\ restore_device

\* apply( args, new_version, data, need_write ) for a device that was found
ApplyDevice ==
    /\ apply_pc = "start"
    /\ \E res \in OtaAnswers \cup {NoAnswer}, target \in Versions :
         LET pre      == IF apply_args.ota THEN flash_precheck(res, target) ELSE "none"
             dry      == apply_args.dry_run
             ota      == IF ~apply_args.ota THEN [p |-> {}, s |-> {}]
                         ELSE IF pre # "flash" THEN [p |-> {}, s |-> {OtaRead}]
                         ELSE IF ota_flash(dry) = "print"
                              THEN [p |-> {OtaUpdate}, s |-> {OtaRead}]
                         ELSE [p |-> {}, s |-> {OtaRead, OtaUpdate}]
             urls     == IF ~apply_args.apply_urls THEN [p |-> {}, s |-> {}]
                         ELSE IF dry THEN [p |-> {UrlRequest}, s |-> {}]
                         ELSE [p |-> {},
                               s |-> {UrlRequest} \cup (IF apply_args.settings THEN {}
                                                        ELSE {SettingsRead})]
             new      == IF ~apply_args.settings THEN [p |-> {}, s |-> {}]
                         ELSE IF dry THEN [p |-> {SettingsRequest}, s |-> {}]
                         ELSE [p |-> {}, s |-> {SettingsRequest}]
             restore  == IF ~apply_args.restore_device \/ restore_raises(run_opts.delete_device, TRUE)
                         THEN [p |-> {}, s |-> {}]
                         ELSE IF dry THEN [p |-> restore_requests(stored_settings), s |-> {}]
                         ELSE [p |-> {},
                               s |-> restore_requests(stored_settings) \cup {SettingsRead}]
         IN  /\ ota_pre' = pre
             /\ printed' = ota.p \cup urls.p \cup new.p \cup restore.p
             /\ sent' = ota.s \cup urls.s \cup new.s \cup restore.s
    /\ db_rec' = IF run_opts.delete_device THEN [db_rec EXCEPT !.present = FALSE] ELSE db_rec
    /\ apply_ret' =
          [configured_settings |-> apply_reads_back(apply_args),
           need_write |-> \/ apply_ret.need_write
                          \/ apply_reads_back(apply_args)
                          \/ run_opts.delete_device]
    /\ apply_pc' = IF restore_raises(run_opts.delete_device, apply_args.restore_device)
                   THEN "crashed" ELSE "applied"
    /\ UNCHANGED <<apply_args, stored_settings, run_opts, db_stored, db_writes>>
    /\ ApplyFrame

InitApply ==
    /\ ProvisionIdle
    /\ FlashIdle
    /\ RouterIdle
    /\ PollIdle
    /\ LinkIdle
    /\ FlattenIdle
    /\ SelectIdle
    /\ apply_pc = "start"
    /\ apply_args \in [ota : BOOLEAN, apply_urls : BOOLEAN, settings : BOOLEAN,
                       restore_device : BOOLEAN, dry_run : BOOLEAN]
    /\ stored_settings \in StoredSettings
    /\ ota_pre = "none"
    /\ printed = {}
    /\ sent = {}
    /\ run_opts = NoOpts
    /\ db_rec = Stored(FALSE, <<>>)
    /\ db_stored = Stored(FALSE, <<>>)
    /\ db_writes = 0
    /\ apply_ret = NoReturn

NextApply ==
    \/ ApplyDevice

SpecApply == InitApply /\ [][NextApply]_vars

\* query: the tag edit of a selected record, before the devices are contacted
ApplySelect ==
    /\ apply_pc = "select"
    /\ IF run_opts.set_tag # None \/ run_opts.delete_tag # None
       THEN /\ db_rec' = [db_rec EXCEPT
                            !.hasTags = TRUE,
                            !.Tags = edit_tags(Rec(EmptyMap, db_rec.hasTags, db_rec.Tags),
                                               run_opts.set_tag, run_opts.delete_tag)]
            /\ apply_ret' = [apply_ret EXCEPT !.need_write = TRUE]
       ELSE UNCHANGED <<db_rec, apply_ret>>
    /\ apply_pc' = "start"
    /\ UNCHANGED <<apply_args, stored_settings, ota_pre, printed, sent, run_opts,
                   db_stored, db_writes>>
    /\ ApplyFrame

\* query: find_device fails in every pass and the loop gives up
ApplyUnreached ==
    /\ apply_pc = "start"
    /\ apply_pc' = "unreached"
    /\ UNCHANGED <<apply_args, stored_settings, ota_pre, printed, sent, run_opts,
                   db_rec, db_stored, db_writes, apply_ret>>
    /\ ApplyFrame

\* query after the loop: if configured_settings: device_db[ ... ][ 'settings' ] = ...
\* (KeyError when the record was deleted), if need_write: write_json_file
ApplyStore ==
    /\ apply_pc \in {"applied", "unreached"}
    /\ IF apply_ret.configured_settings /\ ~db_rec.present
       THEN /\ apply_pc' = "crashed"
            /\ UNCHANGED <<db_rec, db_stored, db_writes>>
       ELSE /\ apply_pc' = "done"
            /\ db_rec' = IF apply_ret.configured_settings
                         THEN [db_rec EXCEPT !.settings = "read"] ELSE db_rec
            /\ db_stored' = IF apply_ret.need_write THEN db_rec' ELSE db_stored
            /\ db_writes' = IF apply_ret.need_write THEN db_writes + 1 ELSE db_writes
    /\ UNCHANGED <<apply_args, stored_settings, ota_pre, printed, sent, run_opts, apply_ret>>
    /\ ApplyFrame

\* an apply run on one selected device of the registry
InitApplyRun ==
    /\ ProvisionIdle
    /\ FlashIdle
    /\ RouterIdle
    /\ PollIdle
    /\ LinkIdle
    /\ FlattenIdle
    /\ SelectIdle
    /\ apply_pc = "select"
    /\ apply_args \in [ota : BOOLEAN, apply_urls : BOOLEAN, settings : BOOLEAN,
                       restore_device : BOOLEAN, dry_run : BOOLEAN]
    /\ run_opts \in [delete_device : BOOLEAN, set_tag : {None, "T"}, delete_tag : {None, "A"}]
    /\ stored_settings = Dict(Item("name", Scalar(1)))
    /\ ota_pre = "none"
    /\ printed = {}
    /\ sent = {}
    /\ db_rec \in {Stored(FALSE, <<>>), Stored(TRUE, <<"A">>)}
    /\ db_stored = db_rec
    /\ db_writes = 0
    /\ apply_ret = NoReturn

NextApplyRun ==
    \/ ApplySelect
    \/ ApplyDevice
    \/ ApplyUnreached
    \/ ApplyStore

SpecApplyRun == InitApplyRun /\ [][NextApplyRun]_vars

\* C27: no request that restore generates carries a parameter whose name is
\* in the exclusion list, for top-level scalars, sub-objects and channels.
C27_NoExcludedParameter ==
    \A r \in printed \cup sent :
        r.op = "restore" => DOMAIN r.params \cap exclude_setting = {}

\* C28: with --dry-run apply prints the requests it would send for
\* --restore-device, --url, --settings and --ota, and sends none of them.
C28_DryRunSendsNothing ==
    (apply_pc = "applied" /\ apply_args.dry_run) =>
        /\ \A r \in sent : r.kind = "read"
        /\ apply_args.restore_device => restore_requests(stored_settings) \subseteq printed
        /\ apply_args.apply_urls => UrlRequest \in printed
        /\ apply_args.settings => SettingsRequest \in printed
        /\ ota_pre = "flash" => OtaUpdate \in printed

\* a dry run with all four options on a device that needs the update
C28_Witness ==
    /\ apply_pc = "applied"
    /\ apply_args = [ota |-> TRUE, apply_urls |-> TRUE, settings |-> TRUE,
                     restore_device |-> TRUE, dry_run |-> TRUE]
    /\ ota_pre = "flash"
    /\ OtaUpdate \in printed

\* the parameter set by a request, as a path of the settings
Target(r, p) ==
    IF Len(r.path) = 3 THEN <<"relays", r.path[3], p>>
    ELSE IF Len(r.path) = 2 THEN <<r.path[2], p>>
    ELSE IF p = "sntp_server" THEN <<"sntp", "server">>
    ELSE IF \E f \in {"enable", "server"} : p = "mqtt_" \o f
         THEN <<"mqtt", CHOOSE f \in {"enable", "server"} : p = "mqtt_" \o f>>
    ELSE <<p>>

\* the paths that the requests set on a device, each with its value
SetByRequests(reqs) ==
    UNION {{<<Target(r, p), r.params[p]>> : p \in DOMAIN r.params} : r \in reqs}

\* C29: the requests of a restore, applied to a device, give back the
\* stored settings except for the excluded fields: every stored leaf that
\* is not excluded is set to its stored value.
C29_RestoreRoundTrip ==
    (apply_pc = "applied" /\ apply_args.restore_device /\ ~apply_args.dry_run) =>
        \A leaf \in Leaves(stored_settings, <<>>) :
            (\A i \in DOMAIN leaf[1] : leaf[1][i] \notin exclude_setting)
                => <<leaf[1], <<leaf[2]>> >> \in SetByRequests({r \in sent : r.op = "restore"})

\* C30: after an apply with --settings or --url and no --dry-run over
\* several devices, the registry holds, for every device the changes were
\* applied to, the settings read back from that same device.
C30_AppliedSettingsStored ==
    (poll_pc = "done" /\ apply_reads) => \A d \in done : settings_of[d] = d

\* ---------------------------------------------------------------------
\* provision_device, attempt by attempt
\* ---------------------------------------------------------------------
\* args.verbose: the number of -v on the command line
Verbosity == 0..3

\* tries as provision_native and provision_ddwrt pass it
PushTries == {DdwrtTriesSingle, NativeTries}

\* one call and the device it talks to.  The device answers push number ack
\* without 'error' (0: never); the pushes before get the answer bad ('error'
\* in the content, or no usable answer), the pushes after it the answer after
PushInputs ==
    { [tries |-> t, verbose |-> v, dev_gen |-> g, ack |-> a, bad |-> b, after |-> f] :
        t \in PushTries, v \in Verbosity, g \in {1, 2}, a \in 0..MaxAck,
        b \in {"error", "none"}, f \in {"ok", "error", "none"} }

\* what the device answers to push number k
answer(in, k) ==
    IF in.ack = 0 \/ k < in.ack THEN in.bad
    ELSE IF k = in.ack THEN "ok"
    ELSE in.after

\* the body of the try raises: url_read, rpc_post or json.loads fail without
\* a usable answer; print( repr( [req, data] ) ) reads data, a local that only
\* the Gen-2 branch assigns
attempt_raises(r, verbose, gen) ==
    \/ r = "none"
    \/ (r = "error" \/ verbose > 2) /\ gen # 2

\* got_one = True is reached
sets_got_one(r, verbose, gen) == ~attempt_raises(r, verbose, gen) /\ r # "error"

\* the number of the first push that sets got_one, 0 when none of the
\* 5 * tries pushes does
RECURSIVE first_got(_, _)
first_got(in, k) ==
    IF k > PushPasses * in.tries THEN 0
    ELSE IF sets_got_one(answer(in, k), in.verbose, in.dev_gen) THEN k
    ELSE first_got(in, k + 1)

PushFrame == UNCHANGED <<provVars, flashVars, routerVars, pollVars, queryVars, telnetVars>>

\* for i in range(5): time.sleep( args.pause_time )
PushPause ==
    /\ PushFrame
    /\ push_pc = "pause"
    /\ pauses' = pauses + 1
    /\ push_j' = 0
    /\ push_pc' = "attempt"
    /\ UNCHANGED <<push_in, push_i, got_one, push_ret, pushes, good_pass>>

\* for j in range(tries): one request and what the try block makes of it
PushAttempt ==
    /\ PushFrame
    /\ push_pc = "attempt"
    /\ LET r == answer(push_in, pushes + 1)
       IN  /\ pushes' = pushes + 1
           /\ got_one' = (got_one \/ sets_got_one(r, push_in.verbose, push_in.dev_gen))
           /\ good_pass' = IF good_pass = 0 /\ r = "ok" THEN push_i + 1 ELSE good_pass
    /\ push_j' = push_j + 1
    /\ push_pc' = IF push_j + 1 = push_in.tries THEN "pass_end" ELSE "attempt"
    /\ UNCHANGED <<push_in, push_i, push_ret, pauses>>

\* if got_one: return True; after the fifth pass return False
PushPassEnd ==
    /\ PushFrame
    /\ push_pc = "pass_end"
    /\ IF got_one
       THEN /\ push_ret' = TRUE
            /\ push_pc' = "done"
            /\ UNCHANGED push_i
       ELSE IF push_i + 1 < PushPasses
       THEN /\ push_i' = push_i + 1
            /\ push_pc' = "pause"
            /\ UNCHANGED push_ret
       ELSE /\ push_ret' = FALSE
            /\ push_pc' = "done"
            /\ UNCHANGED push_i
    /\ UNCHANGED <<push_in, push_j, got_one, pushes, pauses, good_pass>>

InitPush ==
    /\ ProvisionIdle
    /\ FlashIdle
    /\ RouterIdle
    /\ PollIdle
    /\ QueryIdle
    /\ TelnetIdle
    /\ push_pc = "pause"
    /\ push_in \in PushInputs
    /\ push_i = 0
    /\ push_j = 0
    /\ got_one = FALSE
    /\ push_ret = FALSE
    /\ pushes = 0
    /\ pauses = 0
    /\ good_pass = 0

NextPush ==
    \/ PushPause
    \/ PushAttempt
    \/ PushPassEnd

SpecPush == InitPush /\ [][NextPush]_vars

\* C31: provision_device sends at most 5 * tries requests, has paused once
\* for every pass it started, returns True at the end of the first pass in
\* which an answer without 'error' arrived, and returns False exactly when
\* no such answer arrived in any of the 5 passes.
C31_PushPasses ==
    /\ pushes <= PushPasses * push_in.tries
    /\ push_pc = "attempt" => pauses = push_i + 1
    /\ push_pc = "done" =>
         /\ push_ret <=> good_pass # 0
         /\ push_ret => pushes = good_pass * push_in.tries
         /\ ~push_ret => pushes = PushPasses * push_in.tries

\* C37: the value provision_device returns is the one it returns, for the
\* same device and the same answers, at every other verbosity level.
C37_VerbosityIndependent ==
    push_pc = "done" =>
        \A v \in Verbosity :
            provision_device(push_in.tries,
                             first_got([push_in EXCEPT !.verbose = v], 1)).ok = push_ret

\* ---------------------------------------------------------------------
\* flash_device: the ways to success
\* ---------------------------------------------------------------------
\* C32: flash_device returns True only when the device already had the
\* target build, or the update was sent with a timeout of zero and no poll
\* was made, or 'updating' was seen and a later poll showed a build that
\* differs from the first one and is the target; a device that goes from
\* 'updating' to idle on its first build never gets True.
C32_SuccessOnlyThreeWays ==
    /\ (flash_pc = "done" /\ flash_ret) =>
          \/ result.old_version = new_version /\ ~triggered
          \/ triggered /\ ota_timeout = 0 /\ passes = 0
          \/ /\ seen_updating
             /\ new_result # NoAnswer
             /\ new_result.old_version # result.old_version
             /\ new_result.old_version = new_version
    /\ (flash_pc = "done" /\ poll_trace = "UI"
        /\ new_result.old_version = result.old_version) => ~flash_ret

\* ---------------------------------------------------------------------
\* ddwrt_choose_roles with two routers
\* ---------------------------------------------------------------------
\* the connected nodes that have a snapshot of the mode
Capable(mode) ==
    {i \in DOMAIN nodes : IF mode = "ap" THEN router_db[nodes[i].name].ap
                          ELSE router_db[nodes[i].name].sta}

\* the connected nodes that are in the mode now
Holding(mode) == {i \in DOMAIN nodes : nodes[i].current_mode = mode}

\* C33: with two named routers connected, one or more of them with an ap
\* snapshot and one or more with a sta snapshot, ddwrt_choose_roles returns
\* two different nodes whatever their current modes are, and when both have
\* both snapshots the AP role goes to a node now in ap mode if there is one
\* and the STA role to a node now in sta mode if there is one.
C33_RolesForTwoRouters ==
    (router_pc = "choose" /\ NodeCount = 2 /\ Capable("ap") # {} /\ Capable("sta") # {})
        => LET roles == ddwrt_choose_roles(nodes, router_db)
           IN  /\ roles.status = "ok"
               /\ roles.ap # roles.sta
               /\ (Capable("ap") = DOMAIN nodes /\ Capable("sta") = DOMAIN nodes)
                     => /\ Holding("ap") # {} => roles.ap \in Holding("ap")
                        /\ Holding("sta") # {} => roles.sta \in Holding("sta")

\* ---------------------------------------------------------------------
\* provision_ddwrt: the role switches of a run
\* ---------------------------------------------------------------------
\* two routers take part in the run
DualRun == router_pc \in {"run", "exit"} /\ run_attempts > 0 /\ ~SameRouter(ap_node, sta_node)

\* one router, named once, does both jobs
SingleRun == router_pc \in {"run", "exit"} /\ run_attempts > 0 /\ NodeCount = 1

\* C34: in a run with two routers no router is sent the full apply more than
\* once, and from the first device handed off on the AP router is tracked in
\* ap mode and the STA router in sta mode; a single router is sent the full
\* apply twice for every later device.
C34_OneSwitchPerRouter ==
    /\ DualRun => \A r \in RouterNames : slow[r] <= 1
    /\ (DualRun /\ handed >= 1)
          => (nodes[ap_node].current_mode = "ap" /\ nodes[sta_node].current_mode = "sta")
    /\ (SingleRun /\ router_pc = "run" /\ run_pc = "verify" /\ handed >= 1)
          => device_slow = 2

\* two routers that both had to change mode handed off a second device
C34_Witness ==
    /\ DualRun
    /\ handed = 2
    /\ slow = [r \in RouterNames |-> 1]
    /\ last_call.branch = "fast"

\* ---------------------------------------------------------------------
\* ddwrt_do_cmd on a telnet connection
\* ---------------------------------------------------------------------
\* the commands sent over one connection
MaxCmds == 2

\* a piece of what the router writes: the line of the echo command
\* (####BOT####), the output of half h of command c, or the prompt
Piece(kind, c, h) == [kind |-> kind, cmd |-> c, half |-> h]

\* what the router writes for one command line
Reply(c, h) == <<Piece("bot", c, h), Piece("out", c, h), Piece("prompt", c, h)>>

\* the position of the first piece of the kind in the buffer, 0 when none
FirstOf(buf, kind) ==
    IF \E i \in DOMAIN buf : buf[i].kind = kind
    THEN CHOOSE i \in DOMAIN buf :
           buf[i].kind = kind /\ \A j \in 1..(i - 1) : buf[j].kind # kind
    ELSE 0

\* tn.read_until( expected, 2 ): up to the first match when one has come in,
\* everything that has come in when the two seconds pass without one
read_until(buf, kind) ==
    IF FirstOf(buf, kind) # 0 THEN SubSeq(buf, 1, FirstOf(buf, kind)) ELSE buf

\* [:-len(prompt)-1]: the end of what was read is cut off
StripPrompt(read) == IF read = <<>> THEN <<>> ELSE SubSeq(read, 1, Len(read) - 1)

TelnetFrame == UNCHANGED <<provVars, flashVars, routerVars, pollVars, queryVars, pushVars>>

\* the line delivers the next piece of router output
TelnetDeliver ==
    /\ TelnetFrame
    /\ tn_pc # "idle"
    /\ tn_line # <<>>
    /\ tn_buf' = Append(tn_buf, Head(tn_line))
    /\ tn_line' = Tail(tn_line)
    /\ UNCHANGED <<tn_pc, tn_cmd, tn_half, tn_result, tn_err>>

\* ddwrt_do_cmd is called: dbg = tn.read_very_eager()
TelnetEager ==
    /\ TelnetFrame
    /\ tn_pc = "eager"
    /\ tn_buf' = <<>>
    /\ tn_half' = 1
    /\ tn_result' = <<>>
    /\ tn_err' = <<>>
    /\ tn_pc' = "write"
    /\ UNCHANGED <<tn_cmd, tn_line>>

\* tn.write( b"echo ${z}BOT${z};(...)" ): the router runs the line
TelnetWrite ==
    /\ TelnetFrame
    /\ tn_pc = "write"
    /\ tn_line' = tn_line \o Reply(tn_cmd, tn_half)
    /\ tn_pc' = "echo"
    /\ UNCHANGED <<tn_cmd, tn_half, tn_buf, tn_result, tn_err>>

\* dbg = tn.read_until( b'####BOT####\r\n', 2 ): returns on the match, or
\* after two seconds without one
TelnetReadEcho ==
    /\ TelnetFrame
    /\ tn_pc = "echo"
    /\ tn_buf' = SubSeq(tn_buf, Len(read_until(tn_buf, "bot")) + 1, Len(tn_buf))
    /\ tn_pc' = "response"
    /\ UNCHANGED <<tn_cmd, tn_half, tn_line, tn_result, tn_err>>

\* response = tn.read_until( prompt, 2 )...[:-len(prompt)-1], then the same
\* exchange for cat /tmp/cmd.err.out, then return ( result, err )
TelnetReadResponse ==
    /\ TelnetFrame
    /\ tn_pc = "response"
    /\ LET read == read_until(tn_buf, "prompt")
       IN  /\ tn_buf' = SubSeq(tn_buf, Len(read) + 1, Len(tn_buf))
           /\ IF tn_half = 1
              THEN /\ tn_result' = StripPrompt(read)
                   /\ tn_half' = 2
                   /\ tn_pc' = "write"
                   /\ UNCHANGED tn_err
              ELSE /\ tn_err' = StripPrompt(read)
                   /\ tn_pc' = "returned"
                   /\ UNCHANGED <<tn_result, tn_half>>
    /\ UNCHANGED <<tn_cmd, tn_line>>

\* the caller sends its next command
TelnetNextCmd ==
    /\ TelnetFrame
    /\ tn_pc = "returned"
    /\ tn_cmd < MaxCmds
    /\ tn_cmd' = tn_cmd + 1
    /\ tn_pc' = "eager"
    /\ UNCHANGED <<tn_half, tn_line, tn_buf, tn_result, tn_err>>

\* a connection after ddwrt_sync_connection: nothing pending on the line
InitTelnet ==
    /\ ProvisionIdle
    /\ FlashIdle
    /\ RouterIdle
    /\ PollIdle
    /\ QueryIdle
    /\ PushIdle
    /\ tn_pc = "eager"
    /\ tn_cmd = 1
    /\ tn_half = 1
    /\ tn_line = <<>>
    /\ tn_buf = <<>>
    /\ tn_result = <<>>
    /\ tn_err = <<>>

NextTelnet ==
    \/ TelnetDeliver
    \/ TelnetEager
    \/ TelnetWrite
    \/ TelnetReadEcho
    \/ TelnetReadResponse
    \/ TelnetNextCmd

SpecTelnet == InitTelnet /\ [][NextTelnet]_vars

\* the pieces of the sequence
PiecesOf(seq) == {seq[i] : i \in DOMAIN seq}

\* C35: what ddwrt_do_cmd returns for a command holds output of that
\* command only: no output of an earlier command, no ####BOT#### line and no
\* prompt, however late the router's output arrives.
C35_ResultOfThisCommandOnly ==
    tn_pc = "returned" =>
        /\ PiecesOf(tn_result) \subseteq {Piece("out", tn_cmd, 1)}
        /\ PiecesOf(tn_err) \subseteq {Piece("out", tn_cmd, 2)}

\* ---------------------------------------------------------------------
\* provision_native: the ways out
\* ---------------------------------------------------------------------
\* C36: when a native run has ended, every attach to a factory access point
\* was followed by a call of wifi_reconnect, also when the run ended through
\* sys.exit while a device was being handled.
C36_EveryExitReconnects ==
    (NativeRun /\ pc = "exit") =>
        \A i \in EventsOf({"select"}) : \E j \in EventsOf({"reconnect"}) : j > i

\* ---------------------------------------------------------------------
\* apply: whose settings a record receives
\* ---------------------------------------------------------------------
\* C38: the settings the registry holds for a device are the ones it had
\* before the run or the ones apply read from that same device, also after
\* the polling loop gave up on devices it could not reach.
C38_SettingsFromSameDevice ==
    \A d \in DOMAIN settings_of : settings_of[d] \in {"old", d}

\* ---------------------------------------------------------------------
\* the tags of a record over several runs of query
\* ---------------------------------------------------------------------
\* the tags the record was imported with: the Tags column of its row
imported_tags(entry) ==
    IF entry.ConfigInput.hasTags THEN split(entry.ConfigInput.Tags) ELSE {}

\* C39: after runs with --set-tag (and no --delete-tag) that selected a
\* device, the Tags a later query sees for it hold every tag that was set and
\* the tags it was imported with, and a --match-tag with one of the tags that
\* were set selects it when the other filters do.
C39_TagsAccumulate ==
    (sel_pc = "query" /\ ~tag_deleted /\ set_tags # {}) =>
        LET data == FlatView(sel_entry)
        IN  /\ set_tags \subseteq old_tags(data)
            /\ imported_tags(sel_entry) \subseteq old_tags(data)
            /\ sel_args.match_tag \in set_tags =>
                  (selected <=> match_rec_NoTag(data, sel_args.query_conditions, None,
                                                sel_args.group, None, sel_args.access))

\* ---------------------------------------------------------------------
\* apply --dry-run and the registry
\* ---------------------------------------------------------------------
\* C40: an apply run with --dry-run, whatever other options were given, does
\* not write the registry file, and when it ends the record of the device is
\* still in the registry as it was stored.
C40_DryRunKeepsRegistry ==
    (apply_args.dry_run /\ apply_pc \in {"done", "crashed"}) =>
        /\ db_writes = 0
        /\ apply_pc = "done" => db_rec = db_stored

====
